---------------------------- MODULE Spec2Model ----------------------------
(***************************************************************************)
(* Rule-based analysis engine of the Salesforce/nCino analyser:            *)
(*   src/models/naming_convention_analyzer.py  NamingConventionAnalyzer    *)
(*   src/models/bypass_pattern_analyzer.py     BypassPatternAnalyzer       *)
(*                                                                         *)
(* Text is kept in the state as TLA+ strings.  Every operation on text     *)
(* (regular-expression search, substring test, comparison) is computed on  *)
(* the characters of the string, which the table Chars spells out.         *)
(***************************************************************************)
EXTENDS Integers, Sequences, FiniteSets, TLC

VARIABLES
    convention_rules,          \* NamingConventionAnalyzer.convention_rules
    loan_object_conventions,   \* NamingConventionAnalyzer.loan_object_conventions
    validation_rule_patterns,  \* BypassPatternAnalyzer.validation_rule_patterns
    apex_trigger_patterns,     \* BypassPatternAnalyzer.apex_trigger_patterns
    pc,                        \* position of the caller: idle, loop, done, raised
    op,                        \* the operation in progress
    arg,                       \* the argument of the call
    idx,                       \* number of records of arg the loop has processed
    results,                   \* the results dict the call is building / returned
    priorities,                \* value returned by generate_refactoring_priorities
    score,                     \* value returned by a direct calculate_security_score
    prev                       \* an earlier completed call: operation, argument, outcome

catalogs == <<convention_rules, loan_object_conventions,
              validation_rule_patterns, apex_trigger_patterns>>

vars == <<convention_rules, loan_object_conventions, validation_rule_patterns,
          apex_trigger_patterns, pc, op, arg, idx, results, priorities, score, prev>>

----------------------------------------------------------------------------
(* Bounds of the model *)

\* longest list of records passed to an analyzer
MaxRecords == 3

\* largest count placed in a results structure handed directly to
\* calculate_security_score
MaxCount == 4

\* longest recommendation list supplied to the report generator
MaxRecommendations == 2

\* longest list of records passed to an analyzer by a parallel caller
MaxParallelRecords == 2

\* longest list of fields of which the summary report is generated
MaxSummaryFields == 2

\* longest list of violations given to generate_recommendation
MaxViolations == 2

\* longest list of records an analysis tool is called with
MaxToolRecords == 2

----------------------------------------------------------------------------
(* Characters *)

LowerLetters == <<"a","b","c","d","e","f","g","h","i","j","k","l","m",
                 "n","o","p","q","r","s","t","u","v","w","x","y","z">>

UpperLetters == <<"A","B","C","D","E","F","G","H","I","J","K","L","M",
                 "N","O","P","Q","R","S","T","U","V","W","X","Y","Z">>

LowerCase == {LowerLetters[i] : i \in 1..Len(LowerLetters)}

UpperCase == {UpperLetters[i] : i \in 1..Len(UpperLetters)}

Digit == {"0","1","2","3","4","5","6","7","8","9"}

\* \w and [\w_] of the regular expressions
WordChar == LowerCase \cup UpperCase \cup Digit \cup {"_"}

\* [A-Za-z0-9]
AlphaNum == LowerCase \cup UpperCase \cup Digit

\* \s
Whitespace == {" ", "\t", "\n", "\r", "\f"}

\* ['\"]
Quote == {"'", "\""}

\* the characters in code-point order (str comparison is by code point)
CodeOrder ==
    <<"\t", "\n", "\f", "\r", " ", "!", "\"", "$", "&", "'", "(", ")", "+", ",",
      "-", ".", "0","1","2","3","4","5","6","7","8","9", ";", "<", "=", ">",
      "A","B","C","D","E","F","G","H","I","J","K","L","M",
      "N","O","P","Q","R","S","T","U","V","W","X","Y","Z", "_",
      "a","b","c","d","e","f","g","h","i","j","k","l","m",
      "n","o","p","q","r","s","t","u","v","w","x","y","z", "{", "|", "}">>

Ord(c) == CHOOSE i \in 1..Len(CodeOrder) : CodeOrder[i] = c

LetterIndex(letters, c) == CHOOSE i \in 1..Len(letters) : letters[i] = c

\* str.lower() / str.upper() on one character
ToLower(c) == IF c \in UpperCase THEN LowerLetters[LetterIndex(UpperLetters, c)] ELSE c

ToUpper(c) == IF c \in LowerCase THEN UpperLetters[LetterIndex(LowerLetters, c)] ELSE c

\* The characters of every string of the model.
Chars ==
  "" :> <<>> @@
  "nc_Loan_Score__c" :> <<"n", "c", "_", "L", "o", "a", "n", "_", "S", "c", "o", "r", "e", "_", "_", "c">> @@
  "customField__c" :> <<"c", "u", "s", "t", "o", "m", "F", "i", "e", "l", "d", "_", "_", "c">> @@
  "LLC_BI__Loan__c" :> <<"L", "L", "C", "_", "B", "I", "_", "_", "L", "o", "a", "n", "_", "_", "c">> @@
  "LLC_BI__Amount__c" :> <<"L", "L", "C", "_", "B", "I", "_", "_", "A", "m", "o", "u", "n", "t", "_", "_", "c">> @@
  "Loan_Amount__c" :> <<"L", "o", "a", "n", "_", "A", "m", "o", "u", "n", "t", "_", "_", "c">> @@
  "loan_rate__X" :> <<"l", "o", "a", "n", "_", "r", "a", "t", "e", "_", "_", "X">> @@
  "nc_Rate__c" :> <<"n", "c", "_", "R", "a", "t", "e", "_", "_", "c">> @@
  "MyLoan" :> <<"M", "y", "L", "o", "a", "n">> @@
  "Account__X" :> <<"A", "c", "c", "o", "u", "n", "t", "_", "_", "X">> @@
  "Managed package fields from nCino" :> <<"M", "a", "n", "a", "g", "e", "d", " ", "p", "a", "c", "k", "a", "g", "e", " ", "f", "i", "e", "l", "d", "s", " ", "f", "r", "o", "m", " ", "n", "C", "i", "n", "o">> @@
  "Custom project-specific fields" :> <<"C", "u", "s", "t", "o", "m", " ", "p", "r", "o", "j", "e", "c", "t", "-", "s", "p", "e", "c", "i", "f", "i", "c", " ", "f", "i", "e", "l", "d", "s">> @@
  "Fields should not start with lowercase letters" :> <<"F", "i", "e", "l", "d", "s", " ", "s", "h", "o", "u", "l", "d", " ", "n", "o", "t", " ", "s", "t", "a", "r", "t", " ", "w", "i", "t", "h", " ", "l", "o", "w", "e", "r", "c", "a", "s", "e", " ", "l", "e", "t", "t", "e", "r", "s">> @@
  "Loan-related fields must follow standard or custom patterns" :> <<"L", "o", "a", "n", "-", "r", "e", "l", "a", "t", "e", "d", " ", "f", "i", "e", "l", "d", "s", " ", "m", "u", "s", "t", " ", "f", "o", "l", "l", "o", "w", " ", "s", "t", "a", "n", "d", "a", "r", "d", " ", "o", "r", " ", "c", "u", "s", "t", "o", "m", " ", "p", "a", "t", "t", "e", "r", "n", "s">> @@
  "Field uses an invalid naming pattern" :> <<"F", "i", "e", "l", "d", " ", "u", "s", "e", "s", " ", "a", "n", " ", "i", "n", "v", "a", "l", "i", "d", " ", "n", "a", "m", "i", "n", "g", " ", "p", "a", "t", "t", "e", "r", "n">> @@
  "Loan" :> <<"L", "o", "a", "n">> @@
  "loan" :> <<"l", "o", "a", "n">> @@
  "standard patterns" :> <<"s", "t", "a", "n", "d", "a", "r", "d", " ", "p", "a", "t", "t", "e", "r", "n", "s">> @@
  "custom project-specific" :> <<"c", "u", "s", "t", "o", "m", " ", "p", "r", "o", "j", "e", "c", "t", "-", "s", "p", "e", "c", "i", "f", "i", "c">> @@
  "lowercase" :> <<"l", "o", "w", "e", "r", "c", "a", "s", "e">> @@
  "Managed package" :> <<"M", "a", "n", "a", "g", "e", "d", " ", "p", "a", "c", "k", "a", "g", "e">> @@
  "Custom project-specific" :> <<"C", "u", "s", "t", "o", "m", " ", "p", "r", "o", "j", "e", "c", "t", "-", "s", "p", "e", "c", "i", "f", "i", "c">> @@
  "invalid" :> <<"i", "n", "v", "a", "l", "i", "d">> @@
  "LLC_BI__" :> <<"L", "L", "C", "_", "B", "I", "_", "_">> @@
  "nc_" :> <<"n", "c", "_">> @@
  "__c" :> <<"_", "_", "c">> @@
  "__X" :> <<"_", "_", "X">> @@
  "Loan_" :> <<"L", "o", "a", "n", "_">> @@
  "loan_" :> <<"l", "o", "a", "n", "_">> @@
  "nc_Loan_" :> <<"n", "c", "_", "L", "o", "a", "n", "_">> @@
  "A" :> <<"A">> @@
  "B" :> <<"B">> @@
  "AB" :> <<"A", "B">> @@
  "a" :> <<"a">> @@
  "C" :> <<"C">> @@
  "$Profile.Name != 'System Administrator'" :> <<"$", "P", "r", "o", "f", "i", "l", "e", ".", "N", "a", "m", "e", " ", "!", "=", " ", "'", "S", "y", "s", "t", "e", "m", " ", "A", "d", "m", "i", "n", "i", "s", "t", "r", "a", "t", "o", "r", "'">> @@
  "$Profile.Name === 'Admin'" :> <<"$", "P", "r", "o", "f", "i", "l", "e", ".", "N", "a", "m", "e", " ", "=", "=", "=", " ", "'", "A", "d", "m", "i", "n", "'">> @@
  "NOT($Permission.Bypass_Validation)" :> <<"N", "O", "T", "(", "$", "P", "e", "r", "m", "i", "s", "s", "i", "o", "n", ".", "B", "y", "p", "a", "s", "s", "_", "V", "a", "l", "i", "d", "a", "t", "i", "o", "n", ")">> @@
  "$User.Id === '005000000000001'" :> <<"$", "U", "s", "e", "r", ".", "I", "d", " ", "=", "=", "=", " ", "'", "0", "0", "5", "0", "0", "0", "0", "0", "0", "0", "0", "0", "0", "0", "1", "'">> @@
  "RecordType.Name <> 'Internal'" :> <<"R", "e", "c", "o", "r", "d", "T", "y", "p", "e", ".", "N", "a", "m", "e", " ", "<", ">", " ", "'", "I", "n", "t", "e", "r", "n", "a", "l", "'">> @@
  "OwnerId === $User.Id" :> <<"O", "w", "n", "e", "r", "I", "d", " ", "=", "=", "=", " ", "$", "U", "s", "e", "r", ".", "I", "d">> @@
  "$User.Id =!= '005A' && NOT($Permission.Skip)" :> <<"$", "U", "s", "e", "r", ".", "I", "d", " ", "=", "!", "=", " ", "'", "0", "0", "5", "A", "'", " ", "&", "&", " ", "N", "O", "T", "(", "$", "P", "e", "r", "m", "i", "s", "s", "i", "o", "n", ".", "S", "k", "i", "p", ")">> @@
  "NOT($Permission.Skip) && $Profile.Name === 'Ops'" :> <<"N", "O", "T", "(", "$", "P", "e", "r", "m", "i", "s", "s", "i", "o", "n", ".", "S", "k", "i", "p", ")", " ", "&", "&", " ", "$", "P", "r", "o", "f", "i", "l", "e", ".", "N", "a", "m", "e", " ", "=", "=", "=", " ", "'", "O", "p", "s", "'">> @@
  "Amount > 0" :> <<"A", "m", "o", "u", "n", "t", " ", ">", " ", "0">> @@
  "CONTAINS($Profile.Name, 'Admin')" :> <<"C", "O", "N", "T", "A", "I", "N", "S", "(", "$", "P", "r", "o", "f", "i", "l", "e", ".", "N", "a", "m", "e", ",", " ", "'", "A", "d", "m", "i", "n", "'", ")">> @@
  "$Profile.Name + CONTAINS" :> <<"$", "P", "r", "o", "f", "i", "l", "e", ".", "N", "a", "m", "e", " ", "+", " ", "C", "O", "N", "T", "A", "I", "N", "S">> @@
  "$Profile.Name" :> <<"$", "P", "r", "o", "f", "i", "l", "e", ".", "N", "a", "m", "e">> @@
  "CONTAINS" :> <<"C", "O", "N", "T", "A", "I", "N", "S">> @@
  "NOT($Permission." :> <<"N", "O", "T", "(", "$", "P", "e", "r", "m", "i", "s", "s", "i", "o", "n", ".">> @@
  "$User.Id" :> <<"$", "U", "s", "e", "r", ".", "I", "d">> @@
  "RecordType.Name" :> <<"R", "e", "c", "o", "r", "d", "T", "y", "p", "e", ".", "N", "a", "m", "e">> @@
  "!=" :> <<"!", "=">> @@
  "<>" :> <<"<", ">">> @@
  "OwnerId" :> <<"O", "w", "n", "e", "r", "I", "d">> @@
  "if (FeatureManagement.checkPermission('Bypass_Loan_Trigger')) return;" :> <<"i", "f", " ", "(", "F", "e", "a", "t", "u", "r", "e", "M", "a", "n", "a", "g", "e", "m", "e", "n", "t", ".", "c", "h", "e", "c", "k", "P", "e", "r", "m", "i", "s", "s", "i", "o", "n", "(", "'", "B", "y", "p", "a", "s", "s", "_", "L", "o", "a", "n", "_", "T", "r", "i", "g", "g", "e", "r", "'", ")", ")", " ", "r", "e", "t", "u", "r", "n", ";">> @@
  "if (Settings__c.Disabled__c) return;" :> <<"i", "f", " ", "(", "S", "e", "t", "t", "i", "n", "g", "s", "_", "_", "c", ".", "D", "i", "s", "a", "b", "l", "e", "d", "_", "_", "c", ")", " ", "r", "e", "t", "u", "r", "n", ";">> @@
  "if (u.Id == '005000000000001') return;" :> <<"i", "f", " ", "(", "u", ".", "I", "d", " ", "=", "=", " ", "'", "0", "0", "5", "0", "0", "0", "0", "0", "0", "0", "0", "0", "0", "0", "1", "'", ")", " ", "r", "e", "t", "u", "r", "n", ";">> @@
  "if (p.Profile.Name == 'Admin') return;" :> <<"i", "f", " ", "(", "p", ".", "P", "r", "o", "f", "i", "l", "e", ".", "N", "a", "m", "e", " ", "=", "=", " ", "'", "A", "d", "m", "i", "n", "'", ")", " ", "r", "e", "t", "u", "r", "n", ";">> @@
  "if (Cfg__c.Off__c || u.Id == \"005000000000001AAA\") return;" :> <<"i", "f", " ", "(", "C", "f", "g", "_", "_", "c", ".", "O", "f", "f", "_", "_", "c", " ", "|", "|", " ", "u", ".", "I", "d", " ", "=", "=", " ", "\"", "0", "0", "5", "0", "0", "0", "0", "0", "0", "0", "0", "0", "0", "0", "1", "A", "A", "A", "\"", ")", " ", "r", "e", "t", "u", "r", "n", ";">> @@
  "insert acc;" :> <<"i", "n", "s", "e", "r", "t", " ", "a", "c", "c", ";">> @@
  "if (UserInfo.getProfileId() == '00e') return;" :> <<"i", "f", " ", "(", "U", "s", "e", "r", "I", "n", "f", "o", ".", "g", "e", "t", "P", "r", "o", "f", "i", "l", "e", "I", "d", "(", ")", " ", "=", "=", " ", "'", "0", "0", "e", "'", ")", " ", "r", "e", "t", "u", "r", "n", ";">> @@
  "if (Cfg__c.Off__c && FeatureManagement.checkPermission ( \"Skip\")) return;" :> <<"i", "f", " ", "(", "C", "f", "g", "_", "_", "c", ".", "O", "f", "f", "_", "_", "c", " ", "&", "&", " ", "F", "e", "a", "t", "u", "r", "e", "M", "a", "n", "a", "g", "e", "m", "e", "n", "t", ".", "c", "h", "e", "c", "k", "P", "e", "r", "m", "i", "s", "s", "i", "o", "n", " ", "(", " ", "\"", "S", "k", "i", "p", "\"", ")", ")", " ", "r", "e", "t", "u", "r", "n", ";">> @@
  "if (UserInfo.getUserId() == '005000000000001') return;" :> <<"i", "f", " ", "(", "U", "s", "e", "r", "I", "n", "f", "o", ".", "g", "e", "t", "U", "s", "e", "r", "I", "d", "(", ")", " ", "=", "=", " ", "'", "0", "0", "5", "0", "0", "0", "0", "0", "0", "0", "0", "0", "0", "0", "1", "'", ")", " ", "r", "e", "t", "u", "r", "n", ";">> @@
  "FeatureManagement.checkPermission" :> <<"F", "e", "a", "t", "u", "r", "e", "M", "a", "n", "a", "g", "e", "m", "e", "n", "t", ".", "c", "h", "e", "c", "k", "P", "e", "r", "m", "i", "s", "s", "i", "o", "n">> @@
  "FeatureManagement.checkPermission('Bypass_Loan_Trigger')" :> <<"F", "e", "a", "t", "u", "r", "e", "M", "a", "n", "a", "g", "e", "m", "e", "n", "t", ".", "c", "h", "e", "c", "k", "P", "e", "r", "m", "i", "s", "s", "i", "o", "n", "(", "'", "B", "y", "p", "a", "s", "s", "_", "L", "o", "a", "n", "_", "T", "r", "i", "g", "g", "e", "r", "'", ")">> @@
  "005" :> <<"0", "0", "5">> @@
  "==" :> <<"=", "=">> @@
  "Id" :> <<"I", "d">> @@
  "profile.name" :> <<"p", "r", "o", "f", "i", "l", "e", ".", "n", "a", "m", "e">> @@
  "userinfo.getprofileid()" :> <<"u", "s", "e", "r", "i", "n", "f", "o", ".", "g", "e", "t", "p", "r", "o", "f", "i", "l", "e", "i", "d", "(", ")">> @@
  "loan_rate" :> <<"l", "o", "a", "n", "_", "r", "a", "t", "e">> @@
  "Old__X_Rate__X" :> <<"O", "l", "d", "_", "_", "X", "_", "R", "a", "t", "e", "_", "_", "X">>


----------------------------------------------------------------------------
(* Matching on character sequences *)

\* the literal p occurs in s at position i
LitAt(s, i, p) ==
    /\ i >= 1
    /\ i + Len(p) - 1 <= Len(s)
    /\ \A k \in 1..Len(p) : s[i + k - 1] = p[k]

\* the literal p occurs in s at position i, ignoring case (re.IGNORECASE)
LitAtCI(s, i, p) ==
    /\ i >= 1
    /\ i + Len(p) - 1 <= Len(s)
    /\ \A k \in 1..Len(p) : ToLower(s[i + k - 1]) = p[k]

\* every character of s[i..j] is in the class S (true of the empty range)
AllIn(s, i, j, S) == \A k \in i..j : s[k] \in S

\* "." matches every character but the newline
NoNewline(s, i, j) == \A k \in i..j : s[k] # "\n"

\* "$": the end of the string, or just before a newline that ends the string
AtEnd(s, i) == i = Len(s) + 1 \/ (i = Len(s) /\ s[i] = "\n")

\* positions at which a \s* starting at i can stop
AfterWs(s, i) == {j \in i..(Len(s) + 1) : AllIn(s, i, j - 1, Whitespace)}

\* needle in haystack (Python's "in" on str)
Contains(s, p) == \E i \in 1..(Len(s) - Len(p) + 1) : LitAt(s, i, p)

StartsWith(s, p) == LitAt(s, 1, p)

EndsWith(s, p) == Len(p) <= Len(s) /\ LitAt(s, Len(s) - Len(p) + 1, p)

\* ^pre.*suf$
AnchoredPreAnySuf(s, pre, suf) ==
    /\ LitAt(s, 1, pre)
    /\ \E j \in (Len(pre) + 1)..Len(s) :
          /\ LitAt(s, j, suf)
          /\ AtEnd(s, j + Len(suf))
          /\ NoNewline(s, Len(pre) + 1, j - 1)

\* =[=!]= at position j
EqBangEqAt(s, j) ==
    /\ j + 2 <= Len(s)
    /\ s[j] = "="
    /\ s[j + 1] \in {"=", "!"}
    /\ s[j + 2] = "="

\* lit\s*=[=!]=|lit.*CONTAINS
LitCompareOrContains(s, lit) ==
    \E i \in 1..Len(s) :
        /\ LitAt(s, i, lit)
        /\ \/ \E j \in AfterWs(s, i + Len(lit)) : EqBangEqAt(s, j)
           \/ \E k \in (i + Len(lit))..Len(s) :
                 /\ NoNewline(s, i + Len(lit), k - 1)
                 /\ LitAt(s, k, Chars["CONTAINS"])

\* \s*==\s*['\"] starting at position i
WsEqEqWsQuoteAt(s, i) ==
    \E j \in AfterWs(s, i) :
        /\ LitAt(s, j, Chars["=="])
        /\ \E q \in AfterWs(s, j + 2) : q <= Len(s) /\ s[q] \in Quote

\* re.search(pattern, s), one case per pattern of the catalogs
Search(pattern, s) ==
    CASE pattern = "^LLC_BI__" -> LitAt(s, 1, Chars["LLC_BI__"])
      [] pattern = "^nc_" -> LitAt(s, 1, Chars["nc_"])
      [] pattern = "^[a-z]" -> Len(s) >= 1 /\ s[1] \in LowerCase
      [] pattern = "^LLC_BI__Loan__c$" ->
            /\ LitAt(s, 1, Chars["LLC_BI__Loan__c"])
            /\ AtEnd(s, Len(Chars["LLC_BI__Loan__c"]) + 1)
      [] pattern = "^LLC_BI__.*__c$" ->
            AnchoredPreAnySuf(s, Chars["LLC_BI__"], Chars["__c"])
      [] pattern = "^nc_Loan_.*__c$" ->
            AnchoredPreAnySuf(s, Chars["nc_Loan_"], Chars["__c"])
      [] pattern = "^nc_.*__c$" ->
            AnchoredPreAnySuf(s, Chars["nc_"], Chars["__c"])
      [] pattern = "^Loan_" -> LitAt(s, 1, Chars["Loan_"])
      [] pattern = "^loan_" -> LitAt(s, 1, Chars["loan_"])
      [] pattern = "__X$" ->
            \E j \in 1..Len(s) : LitAt(s, j, Chars["__X"]) /\ AtEnd(s, j + 3)
      [] pattern = "\\$Profile\\.Name\\s*=[=!]=|\\$Profile\\.Name.*CONTAINS" ->
            LitCompareOrContains(s, Chars["$Profile.Name"])
      [] pattern = "NOT\\(\\$Permission\\.[^)]+\\)" ->
            \E i \in 1..Len(s) :
                /\ LitAt(s, i, Chars["NOT($Permission."])
                /\ \E j \in (i + Len(Chars["NOT($Permission."]) + 1)..Len(s) :
                      /\ s[j] = ")"
                      /\ \A k \in (i + Len(Chars["NOT($Permission."]))..(j - 1) :
                            s[k] # ")"
      [] pattern = "\\$User\\.Id\\s*=[=!]=|\\$User\\.Id.*CONTAINS" ->
            LitCompareOrContains(s, Chars["$User.Id"])
      [] pattern = "RecordType\\.Name\\s*!=|RecordType\\.Name\\s*<>" ->
            \E i \in 1..Len(s) :
                /\ LitAt(s, i, Chars["RecordType.Name"])
                /\ \E j \in AfterWs(s, i + Len(Chars["RecordType.Name"])) :
                      LitAt(s, j, Chars["!="]) \/ LitAt(s, j, Chars["<>"])
      [] pattern = "OwnerId\\s*=[=!]=\\s*\\$User\\.Id" ->
            \E i \in 1..Len(s) :
                /\ LitAt(s, i, Chars["OwnerId"])
                /\ \E j \in AfterWs(s, i + Len(Chars["OwnerId"])) :
                      /\ EqBangEqAt(s, j)
                      /\ \E k \in AfterWs(s, j + 3) : LitAt(s, k, Chars["$User.Id"])
      [] pattern = "FeatureManagement\\.checkPermission\\s*\\(\\s*['\\\"]([\\w_]+)['\\\"]" ->
            \E i \in 1..Len(s) :
                /\ LitAt(s, i, Chars["FeatureManagement.checkPermission"])
                /\ \E j \in AfterWs(s, i + Len(Chars["FeatureManagement.checkPermission"])) :
                      /\ j <= Len(s) /\ s[j] = "("
                      /\ \E q \in AfterWs(s, j + 1) :
                            /\ q <= Len(s) /\ s[q] \in Quote
                            /\ \E e \in (q + 2)..Len(s) :
                                  /\ AllIn(s, q + 1, e - 1, WordChar)
                                  /\ s[e] \in Quote
      [] pattern = "([\\w_]+__c)\\.([\\w_]+__c)" ->
            \E d \in 5..Len(s) :
                /\ s[d] = "."
                /\ LitAt(s, d - 3, Chars["__c"])
                /\ s[d - 4] \in WordChar
                /\ \E e \in (d + 2)..Len(s) :
                      /\ AllIn(s, d + 1, e - 1, WordChar)
                      /\ LitAt(s, e, Chars["__c"])
      [] pattern = "Id\\s*==\\s*['\\\"]005[A-Za-z0-9]{12,15}['\\\"]" ->
            \E i \in 1..Len(s) :
                /\ LitAt(s, i, Chars["Id"])
                /\ \E j \in AfterWs(s, i + 2) :
                      /\ LitAt(s, j, Chars["=="])
                      /\ \E q \in AfterWs(s, j + 2) :
                            /\ q <= Len(s) /\ s[q] \in Quote
                            /\ LitAt(s, q + 1, Chars["005"])
                            /\ \E n \in 12..15 :
                                  /\ q + 4 + n <= Len(s)
                                  /\ AllIn(s, q + 4, q + 3 + n, AlphaNum)
                                  /\ s[q + 4 + n] \in Quote
      [] pattern = "profile\\.name\\s*==\\s*['\\\"]|userinfo\\.getprofileid\\(\\)\\s*==\\s*['\\\"]" ->
            \E i \in 1..Len(s) :
                \/ /\ LitAtCI(s, i, Chars["profile.name"])
                   /\ WsEqEqWsQuoteAt(s, i + Len(Chars["profile.name"]))
                \/ /\ LitAtCI(s, i, Chars["userinfo.getprofileid()"])
                   /\ WsEqEqWsQuoteAt(s, i + Len(Chars["userinfo.getprofileid()"]))

----------------------------------------------------------------------------
(* Pattern catalogs, as the constructors build them *)

\* the catalog without the rule on the custom prefix
ConventionRules_ManagedOnly ==
    << [pattern |-> "^LLC_BI__",
        description |-> "Managed package fields from nCino",
        expected |-> TRUE],
       [pattern |-> "^[a-z]",
        description |-> "Fields should not start with lowercase letters",
        expected |-> FALSE] >>

\* NamingConventionAnalyzer.__init__: self.convention_rules
ConventionRules ==
    << [pattern |-> "^LLC_BI__",
        description |-> "Managed package fields from nCino",
        expected |-> TRUE],
       [pattern |-> "^nc_",
        description |-> "Custom project-specific fields",
        expected |-> TRUE],
       [pattern |-> "^[a-z]",
        description |-> "Fields should not start with lowercase letters",
        expected |-> FALSE] >>

\* NamingConventionAnalyzer.__init__: self.loan_object_conventions
LoanObjectConventions ==
    [standard_patterns |-> <<"^LLC_BI__Loan__c$", "^LLC_BI__.*__c$">>,
     custom_patterns |-> <<"^nc_Loan_.*__c$", "^nc_.*__c$">>,
     invalid_patterns |-> <<"^Loan_", "^loan_", "__X$">>]

\* BypassPatternAnalyzer.__init__: self.validation_rule_patterns
ValidationRulePatterns ==
    << [name |-> "Profile-based bypass",
        regex |-> "\\$Profile\\.Name\\s*=[=!]=|\\$Profile\\.Name.*CONTAINS",
        severity |-> "Medium",
        description |-> "Using Profile.Name to bypass validation rules creates maintenance challenges when profiles change and makes rules difficult to manage at scale.",
        recommended_approach |-> "Use custom permissions instead, which are more maintainable and explicit."],
       [name |-> "Custom permission bypass",
        regex |-> "NOT\\(\\$Permission\\.[^)]+\\)",
        severity |-> "Low",
        description |-> "Using NOT with permissions is generally acceptable but should be documented and consistently implemented.",
        recommended_approach |-> "Ensure permission names are consistently structured with prefixes like 'Bypass_' for clarity."],
       [name |-> "User ID bypass",
        regex |-> "\\$User\\.Id\\s*=[=!]=|\\$User\\.Id.*CONTAINS",
        severity |-> "High",
        description |-> "Hardcoding specific User IDs creates significant maintenance issues and security risks.",
        recommended_approach |-> "Use permission sets, custom permissions, or roles instead of specific User IDs."],
       [name |-> "Record Type bypass",
        regex |-> "RecordType\\.Name\\s*!=|RecordType\\.Name\\s*<>",
        severity |-> "Medium",
        description |-> "Explicitly excluding certain record types can create maintenance challenges.",
        recommended_approach |-> "Use explicit inclusion rather than exclusion when possible."],
       [name |-> "Owner ID bypass",
        regex |-> "OwnerId\\s*=[=!]=\\s*\\$User\\.Id",
        severity |-> "Medium",
        description |-> "Bypassing validation for record owners may create inconsistent data validation.",
        recommended_approach |-> "Consider permission-based approaches that don't depend on record ownership."] >>

\* BypassPatternAnalyzer.__init__: self.apex_trigger_patterns
ApexTriggerPatterns ==
    << [name |-> "Feature management permission check",
        regex |-> "FeatureManagement\\.checkPermission\\s*\\(\\s*['\\\"]([\\w_]+)['\\\"]",
        severity |-> "Low",
        description |-> "Using FeatureManagement to check permissions is recommended, but should be implemented consistently.",
        recommended_approach |-> "Use a consistent pattern like return !FeatureManagement.checkPermission('Bypass_Trigger');"],
       [name |-> "Custom setting bypass",
        regex |-> "([\\w_]+__c)\\.([\\w_]+__c)",
        severity |-> "Medium",
        description |-> "Using custom settings to control trigger execution can create maintenance challenges.",
        recommended_approach |-> "Document the custom setting usage and ensure consistent implementation."],
       [name |-> "Hardcoded User ID check",
        regex |-> "Id\\s*==\\s*['\\\"]005[A-Za-z0-9]{12,15}['\\\"]",
        severity |-> "High",
        description |-> "Hardcoding User IDs creates significant maintenance issues and security risks.",
        recommended_approach |-> "Use permission sets, custom permissions, or roles instead of specific User IDs."],
       [name |-> "Profile name check",
        regex |-> "profile\\.name\\s*==\\s*['\\\"]|userinfo\\.getprofileid\\(\\)\\s*==\\s*['\\\"]",
        severity |-> "Medium",
        description |-> "Using profile names or IDs to bypass logic creates maintenance challenges.",
        recommended_approach |-> "Use custom permissions instead of relying on profiles."] >>

----------------------------------------------------------------------------
(* Python values *)

\* dict.get(key, default)
\* {}: the dict without a key
EmptyDict == <<>>

Get(d, key, default) == IF key \in DOMAIN d THEN d[key] ELSE default

\* d.get(k1) or d.get(k2) or "": the first of the two that is a non-empty string
GetEither(d, k1, k2) ==
    IF Get(d, k1, "") # "" THEN d[k1]
    ELSE IF Get(d, k2, "") # "" THEN d[k2]
    ELSE ""

\* round(n / d) for d > 0: Python rounds halves to the even neighbour
RoundHalfEven(n, d) ==
    LET q == n \div d
        r == n % d
    IN  IF 2 * r < d THEN q
        ELSE IF 2 * r > d THEN q + 1
        ELSE IF q % 2 = 0 THEN q ELSE q + 1

Max(a, b) == IF a >= b THEN a ELSE b

Min(a, b) == IF a <= b THEN a ELSE b

\* s1 < s2 on str: lexicographic by code point
RECURSIVE SeqLess(_, _)
SeqLess(s, t) ==
    IF t = <<>> THEN FALSE
    ELSE IF s = <<>> THEN TRUE
    ELSE IF Ord(Head(s)) < Ord(Head(t)) THEN TRUE
    ELSE IF Ord(Head(s)) > Ord(Head(t)) THEN FALSE
    ELSE SeqLess(Tail(s), Tail(t))

StrLess(a, b) == SeqLess(Chars[a], Chars[b])

\* s.replace(old, new) on character sequences: left to right, non-overlapping
RECURSIVE Replace(_, _, _)
Replace(s, old, new) ==
    IF s = <<>> THEN <<>>
    ELSE IF LitAt(s, 1, old)
         THEN new \o Replace(SubSeq(s, Len(old) + 1, Len(s)), old, new)
         ELSE <<Head(s)>> \o Replace(Tail(s), old, new)

\* The argument of a call is a Python value: its kind (list, None, tuple, dict)
\* and the items it holds.

\* bool(x): None and empty containers are false
Truthy(a) == a.kind # "None" /\ Len(a.items) > 0

\* the guard without the isinstance test
InvalidInput_EmptyOnly(a) == ~Truthy(a)

\* the guard of the three analyzers:  not x or not isinstance(x, list)
InvalidInput(a) == ~Truthy(a) \/ a.kind # "list"

----------------------------------------------------------------------------
(* NamingConventionAnalyzer *)

\* the rule loop stopping at the first rule violated
CatalogViolations_FirstOnly(rules, api_name) ==
    LET Violated(rule) ==
            LET matches == Search(rule.pattern, Chars[api_name])
            IN  (rule.expected /\ ~matches) \/ (~rule.expected /\ matches)
        Violation(rule) ==
            [rule |-> rule.description,
             pattern |-> rule.pattern,
             expected |-> rule.expected]
        violated == SelectSeq(rules, Violated)
    IN  [i \in 1..Min(1, Len(violated)) |-> Violation(violated[i])]

\* analyze_fields, lines 84-91: the violations of the catalog rules
CatalogViolations(rules, api_name) ==
    LET Violated(rule) ==
            LET matches == Search(rule.pattern, Chars[api_name])
            IN  (rule.expected /\ ~matches) \/ (~rule.expected /\ matches)
        Violation(rule) ==
            [rule |-> rule.description,
             pattern |-> rule.pattern,
             expected |-> rule.expected]
        violated == SelectSeq(rules, Violated)
    IN  [i \in 1..Len(violated) |-> Violation(violated[i])]

\* any(pattern.search(api_name) is not None for pattern in patterns)
AnySearch(patterns, api_name) ==
    \E i \in 1..Len(patterns) : Search(patterns[i], Chars[api_name])

\* analyze_fields, lines 94-110: the Loan object checks
LoanViolations(conventions, api_name) ==
    LET name == Chars[api_name]
        has_Loan == Contains(name, Chars["Loan"])
        has_loan == Contains(name, Chars["loan"])
        is_standard == AnySearch(conventions.standard_patterns, api_name)
        is_custom == AnySearch(conventions.custom_patterns, api_name)
        has_invalid_pattern == AnySearch(conventions.invalid_patterns, api_name)
    IN  IF has_Loan \/ has_loan
        THEN (IF ~is_standard /\ ~is_custom /\ has_Loan
              THEN << [rule |-> "Loan-related fields must follow standard or custom patterns",
                       severity |-> "critical"] >>
              ELSE <<>>)
             \o
             (IF has_invalid_pattern
              THEN << [rule |-> "Field uses an invalid naming pattern",
                       severity |-> "critical"] >>
              ELSE <<>>)
        ELSE <<>>

\* "needle" in v.get("rule", "")
RuleMentions(v, needle) == Contains(Chars[Get(v, "rule", "")], Chars[needle])

\* determine_severity looking for the text of the custom-prefix rule as the
\* catalog spells it
determine_severity_CapitalCustom(violations) ==
    LET IsCritical(v) == Get(v, "severity", "") = "critical"
        MentionsLoan(v) == RuleMentions(v, "Loan") \/ RuleMentions(v, "standard patterns")
        MentionsCustom(v) == RuleMentions(v, "Custom project-specific")
    IN  IF (\E i \in 1..Len(violations) : IsCritical(violations[i])) THEN "critical"
        ELSE IF (\E i \in 1..Len(violations) : MentionsLoan(violations[i])) THEN "critical"
        ELSE IF (\E i \in 1..Len(violations) : MentionsCustom(violations[i])) THEN "medium"
        ELSE "low"

determine_severity(violations) ==
    LET IsCritical(v) == Get(v, "severity", "") = "critical"
        MentionsLoan(v) == RuleMentions(v, "Loan") \/ RuleMentions(v, "standard patterns")
        MentionsCustom(v) == RuleMentions(v, "custom project-specific")
    IN  IF (\E i \in 1..Len(violations) : IsCritical(violations[i])) THEN "critical"
        ELSE IF (\E i \in 1..Len(violations) : MentionsLoan(violations[i])) THEN "critical"
        ELSE IF (\E i \in 1..Len(violations) : MentionsCustom(violations[i])) THEN "medium"
        ELSE "low"

\* generate_recommendation testing for a missing prefix before the lowercase start
generate_recommendation_PrefixFirst(api_name, violations) ==
    LET name == Chars[api_name]
        Lowercase(v) == RuleMentions(v, "lowercase")
        Prefix(v) == RuleMentions(v, "Managed package")
                        \/ RuleMentions(v, "Custom project-specific")
        Invalid(v) == RuleMentions(v, "invalid")
    IN  IF (\E i \in 1..Len(violations) : Prefix(violations[i]))
        THEN IF /\ Contains(name, Chars["Loan"])
                /\ ~StartsWith(name, Chars["LLC_BI__"])
                /\ ~StartsWith(name, Chars["nc_"])
             THEN [fmt |-> "Add 'nc_' prefix: 'nc_{api_name}'", args |-> <<name>>]
             ELSE [fmt |-> "Add appropriate prefix ('LLC_BI__' for managed package fields or 'nc_' for custom fields)",
                   args |-> <<>>]
        ELSE IF (\E i \in 1..Len(violations) : Lowercase(violations[i]))
        THEN [fmt |-> "Change first character '{first_char}' to uppercase: '{first_char.upper() + api_name[1:]}'",
              args |-> << <<name[1]>>, <<ToUpper(name[1])>> \o Tail(name) >>]
        ELSE IF (\E i \in 1..Len(violations) : Invalid(violations[i]))
        THEN IF EndsWith(name, Chars["__X"])
             THEN [fmt |-> "Remove '__X' suffix: '{api_name.replace('__X', '__c')}'",
                   args |-> <<Replace(name, Chars["__X"], Chars["__c"])>>]
             ELSE IF StartsWith(name, Chars["loan_"])
             THEN [fmt |-> "Change to 'nc_Loan_{api_name[5:]}'",
                   args |-> <<SubSeq(name, 6, Len(name))>>]
             ELSE [fmt |-> "Rename to follow standard pattern (LLC_BI__*__c) or custom pattern (nc_*__c)",
                   args |-> <<>>]
        ELSE [fmt |-> "Review field naming and apply appropriate convention",
              args |-> <<>>]

\* generate_recommendation testing for an invalid pattern first
generate_recommendation_InvalidFirst(api_name, violations) ==
    LET name == Chars[api_name]
        Lowercase(v) == RuleMentions(v, "lowercase")
        Prefix(v) == RuleMentions(v, "Managed package")
                        \/ RuleMentions(v, "Custom project-specific")
        Invalid(v) == RuleMentions(v, "invalid")
    IN  IF (\E i \in 1..Len(violations) : Invalid(violations[i]))
        THEN IF EndsWith(name, Chars["__X"])
             THEN [fmt |-> "Remove '__X' suffix: '{api_name.replace('__X', '__c')}'",
                   args |-> <<Replace(name, Chars["__X"], Chars["__c"])>>]
             ELSE IF StartsWith(name, Chars["loan_"])
             THEN [fmt |-> "Change to 'nc_Loan_{api_name[5:]}'",
                   args |-> <<SubSeq(name, 6, Len(name))>>]
             ELSE [fmt |-> "Rename to follow standard pattern (LLC_BI__*__c) or custom pattern (nc_*__c)",
                   args |-> <<>>]
        ELSE IF (\E i \in 1..Len(violations) : Lowercase(violations[i]))
        THEN [fmt |-> "Change first character '{first_char}' to uppercase: '{first_char.upper() + api_name[1:]}'",
              args |-> << <<name[1]>>, <<ToUpper(name[1])>> \o Tail(name) >>]
        ELSE IF (\E i \in 1..Len(violations) : Prefix(violations[i]))
        THEN IF /\ Contains(name, Chars["Loan"])
                /\ ~StartsWith(name, Chars["LLC_BI__"])
                /\ ~StartsWith(name, Chars["nc_"])
             THEN [fmt |-> "Add 'nc_' prefix: 'nc_{api_name}'", args |-> <<name>>]
             ELSE [fmt |-> "Add appropriate prefix ('LLC_BI__' for managed package fields or 'nc_' for custom fields)",
                   args |-> <<>>]
        ELSE [fmt |-> "Review field naming and apply appropriate convention",
              args |-> <<>>]

\* A formatted string is kept as its format and the interpolated values
\* (character sequences), in order of appearance.
generate_recommendation(api_name, violations) ==
    LET name == Chars[api_name]
        Lowercase(v) == RuleMentions(v, "lowercase")
        Prefix(v) == RuleMentions(v, "Managed package")
                        \/ RuleMentions(v, "Custom project-specific")
        Invalid(v) == RuleMentions(v, "invalid")
    IN  IF (\E i \in 1..Len(violations) : Lowercase(violations[i]))
        THEN [fmt |-> "Change first character '{first_char}' to uppercase: '{first_char.upper() + api_name[1:]}'",
              args |-> << <<name[1]>>, <<ToUpper(name[1])>> \o Tail(name) >>]
        ELSE IF (\E i \in 1..Len(violations) : Prefix(violations[i]))
        THEN IF /\ Contains(name, Chars["Loan"])
                /\ ~StartsWith(name, Chars["LLC_BI__"])
                /\ ~StartsWith(name, Chars["nc_"])
             THEN [fmt |-> "Add 'nc_' prefix: 'nc_{api_name}'", args |-> <<name>>]
             ELSE [fmt |-> "Add appropriate prefix ('LLC_BI__' for managed package fields or 'nc_' for custom fields)",
                   args |-> <<>>]
        ELSE IF (\E i \in 1..Len(violations) : Invalid(violations[i]))
        THEN IF EndsWith(name, Chars["__X"])
             THEN [fmt |-> "Remove '__X' suffix: '{api_name.replace('__X', '__c')}'",
                   args |-> <<Replace(name, Chars["__X"], Chars["__c"])>>]
             ELSE IF StartsWith(name, Chars["loan_"])
             THEN [fmt |-> "Change to 'nc_Loan_{api_name[5:]}'",
                   args |-> <<SubSeq(name, 6, Len(name))>>]
             ELSE [fmt |-> "Rename to follow standard pattern (LLC_BI__*__c) or custom pattern (nc_*__c)",
                   args |-> <<>>]
        ELSE [fmt |-> "Review field naming and apply appropriate convention",
              args |-> <<>>]

\* analyze_fields, lines 67-76
NewFieldResults(fields) ==
    [violations |-> <<>>,
     compliant_field_count |-> 0,
     total_field_count |-> Len(fields),
     by_severity |-> [critical |-> <<>>, medium |-> <<>>, low |-> <<>>]]

\* RecordField with the else of line 126 lost: every field is counted compliant
RecordField_CountsEveryField(res, field, api_name, violations) ==
    LET counted == [res EXCEPT !.compliant_field_count = @ + 1]
    IN  IF violations # <<>>
        THEN LET field_violation ==
                     [apiName |-> api_name,
                      label |-> Get(field, "label", ""),
                      type |-> Get(field, "type", ""),
                      violations |-> violations,
                      recommended_fix |-> generate_recommendation(api_name, violations)]
                 severity == determine_severity(violations)
             IN  [counted EXCEPT !.by_severity[severity] = Append(@, field_violation),
                                 !.violations = Append(@, field_violation)]
        ELSE counted

\* analyze_fields, lines 113-127: record one analyzed field in the results
RecordField(res, field, api_name, violations) ==
    IF violations # <<>>
    THEN LET field_violation ==
                 [apiName |-> api_name,
                  label |-> Get(field, "label", ""),
                  type |-> Get(field, "type", ""),
                  violations |-> violations,
                  recommended_fix |-> generate_recommendation(api_name, violations)]
             severity == determine_severity(violations)
         IN  [res EXCEPT !.by_severity[severity] = Append(@, field_violation),
                         !.violations = Append(@, field_violation)]
    ELSE [res EXCEPT !.compliant_field_count = @ + 1]

\* analyze_fields, lines 79-127: one iteration of the loop over the fields
AnalyzeField(res, field, rules, conventions) ==
    LET api_name == GetEither(field, "apiName", "fullName")
        violations == CatalogViolations(rules, api_name)
                        \o LoanViolations(conventions, api_name)
    IN  RecordField(res, field, api_name, violations)

\* analyze_fields, line 130
WithCompliancePercentage(res) ==
    ("compliance_percentage" :>
        RoundHalfEven(res.compliant_field_count * 100, res.total_field_count))
    @@ res

----------------------------------------------------------------------------
(* BypassPatternAnalyzer *)

\* the keys of a results dict that depend on the kind of component
ResultKeys(component_type) ==
    IF component_type = "trigger"
    THEN [by_pattern |-> "triggers_by_pattern",
          by_severity |-> "triggers_by_severity",
          total |-> "total_triggers",
          with_bypass |-> "triggers_with_bypass"]
    ELSE [by_pattern |-> "rules_by_pattern",
          by_severity |-> "rules_by_severity",
          total |-> "total_rules",
          with_bypass |-> "rules_with_bypass"]

\* determine_highest_severity falling through to "Medium" instead of "Low"
determine_highest_severity_DefaultMedium(patterns) ==
    LET IsHigh(p) == p.severity = "High"
    IN  IF (\E i \in 1..Len(patterns) : IsHigh(patterns[i])) THEN "High" ELSE "Medium"

\* determine_highest_severity testing Medium before High
determine_highest_severity_MediumFirst(patterns) ==
    LET IsHigh(p) == p.severity = "High"
        IsMedium(p) == p.severity = "Medium"
    IN  IF (\E i \in 1..Len(patterns) : IsMedium(patterns[i])) THEN "Medium"
        ELSE IF (\E i \in 1..Len(patterns) : IsHigh(patterns[i])) THEN "High"
        ELSE "Low"

determine_highest_severity(patterns) ==
    LET IsHigh(p) == p.severity = "High"
        IsMedium(p) == p.severity = "Medium"
    IN  IF (\E i \in 1..Len(patterns) : IsHigh(patterns[i])) THEN "High"
        ELSE IF (\E i \in 1..Len(patterns) : IsMedium(patterns[i])) THEN "Medium"
        ELSE "Low"

\* the score returned without the clamp of line 307
Clamp_Missing(x) == x

\* max(0, min(100, round(score)))
Clamp(x) == Max(0, Min(100, x))

\* calculate_security_score deducting 2 points per Low-severity component as well
calculate_security_score_LowDeducts(res, component_type) ==
    LET keys == ResultKeys(component_type)
        components_with_bypass == res[keys.with_bypass]
        total_components == res[keys.total]
        high_severity_components == Len(res[keys.by_severity]["High"])
        medium_severity_components ==
            Len(res[keys.by_severity]["Medium"]) + Len(res[keys.by_severity]["Low"])
        fixed == 100 - high_severity_components * 5 - medium_severity_components * 2
    IN  IF total_components > 0
        THEN Clamp(RoundHalfEven(fixed * total_components - 30 * components_with_bypass,
                                 total_components))
        ELSE Clamp(fixed)

\* score = 100 - (with_bypass / total * 100) * 0.3 - 5 * high - 2 * medium, rounded
\* and clamped.  The score is the fraction
\*   ((100 - 5 * high - 2 * medium) * total - 30 * with_bypass) / total.
calculate_security_score(res, component_type) ==
    LET keys == ResultKeys(component_type)
        components_with_bypass == res[keys.with_bypass]
        total_components == res[keys.total]
        high_severity_components == Len(res[keys.by_severity]["High"])
        medium_severity_components == Len(res[keys.by_severity]["Medium"])
        fixed == 100 - high_severity_components * 5 - medium_severity_components * 2
    IN  IF total_components > 0
        THEN Clamp(RoundHalfEven(fixed * total_components - 30 * components_with_bypass,
                                 total_components))
        ELSE Clamp(fixed)

\* the findings collected in reverse catalog order
FoundPatterns_Reversed(patterns, text) ==
    LET Matches(pattern) == Search(pattern.regex, Chars[text])
        Finding(pattern) ==
            [name |-> pattern.name,
             severity |-> pattern.severity,
             description |-> pattern.description,
             recommended_approach |-> pattern.recommended_approach]
        matched == SelectSeq(patterns, Matches)
    IN  [i \in 1..Len(matched) |-> Finding(matched[Len(matched) + 1 - i])]

\* the patterns of the catalog found in the text, in catalog order
FoundPatterns(patterns, text) ==
    LET Matches(pattern) == Search(pattern.regex, Chars[text])
        Finding(pattern) ==
            [name |-> pattern.name,
             severity |-> pattern.severity,
             description |-> pattern.description,
             recommended_approach |-> pattern.recommended_approach]
        matched == SelectSeq(patterns, Matches)
    IN  [i \in 1..Len(matched) |-> Finding(matched[i])]

\* analyze_validation_rules 129-143, analyze_apex_triggers 198-212
NewBypassResults(records, patterns, component_type) ==
    LET keys == ResultKeys(component_type)
    IN  (keys.by_pattern :>
            [n \in {patterns[i].name : i \in 1..Len(patterns)} |-> <<>>])
        @@ (keys.by_severity :> [High |-> <<>>, Medium |-> <<>>, Low |-> <<>>])
        @@ (keys.total :> Len(records))
        @@ (keys.with_bypass :> 0)
        @@ [bypass_patterns |-> <<>>]

\* the by-pattern index after the identifier is appended to each found pattern
AppendToPatterns(by_pattern, found_patterns, ident) ==
    [n \in DOMAIN by_pattern |->
        IF \E i \in 1..Len(found_patterns) : found_patterns[i].name = n
        THEN Append(by_pattern[n], ident)
        ELSE by_pattern[n]]

\* the flagged counter incremented for every record, flagged or not
RecordComponent_CountsEveryRecord(res, item, ident, found_patterns, component_type) ==
    LET keys == ResultKeys(component_type)
        indexed == [res EXCEPT ![keys.by_pattern] =
                        AppendToPatterns(@, found_patterns, ident),
                               ![keys.with_bypass] = @ + 1]
    IN  IF found_patterns # <<>>
        THEN LET highest_severity == determine_highest_severity(found_patterns)
             IN  [indexed EXCEPT
                     !.bypass_patterns =
                         Append(@, item @@ [patterns |-> found_patterns,
                                            highest_severity |-> highest_severity]),
                     ![keys.by_severity][highest_severity] = Append(@, ident)]
        ELSE indexed

\* lines 163-175 / 232-243: record one flagged component
RecordComponent(res, item, ident, found_patterns, component_type) ==
    LET keys == ResultKeys(component_type)
        indexed == [res EXCEPT ![keys.by_pattern] =
                        AppendToPatterns(@, found_patterns, ident)]
    IN  IF found_patterns # <<>>
        THEN LET highest_severity == determine_highest_severity(found_patterns)
             IN  [indexed EXCEPT
                     !.bypass_patterns =
                         Append(@, item @@ [patterns |-> found_patterns,
                                            highest_severity |-> highest_severity]),
                     ![keys.by_severity][highest_severity] = Append(@, ident),
                     ![keys.with_bypass] = @ + 1]
        ELSE indexed

\* an iteration that takes a rule without the key active to be active
AnalyzeRule_ActiveByDefault(res, rule, patterns) ==
    LET api_name == GetEither(rule, "apiName", "fullName")
        formula == GetEither(rule, "errorConditionFormula", "formula")
        found_patterns == FoundPatterns(patterns, formula)
        item == [apiName |-> api_name,
                 active |-> Get(rule, "active", TRUE),
                 description |-> Get(rule, "description", "")]
    IN  RecordComponent(res, item, api_name, found_patterns, "validation")

\* analyze_validation_rules, lines 146-175: one iteration of the loop
AnalyzeRule(res, rule, patterns) ==
    LET api_name == GetEither(rule, "apiName", "fullName")
        formula == GetEither(rule, "errorConditionFormula", "formula")
        found_patterns == FoundPatterns(patterns, formula)
        item == [apiName |-> api_name,
                 active |-> Get(rule, "active", FALSE),
                 description |-> Get(rule, "description", "")]
    IN  RecordComponent(res, item, api_name, found_patterns, "validation")

\* analyze_apex_triggers, lines 215-243: one iteration of the loop
AnalyzeTrigger(res, trigger, patterns) ==
    LET name == IF Get(trigger, "name", "") # "" THEN trigger.name ELSE ""
        content == GetEither(trigger, "content", "code")
        found_patterns == FoundPatterns(patterns, content)
        item == [name |-> name,
                 active |-> Get(trigger, "active", FALSE)]
    IN  RecordComponent(res, item, name, found_patterns, "trigger")

\* lines 178-181 / 246-249: bypass_percentage, then security_score
WithPercentageAndScore(res, component_type) ==
    LET keys == ResultKeys(component_type)
        bypass_percentage ==
            IF res[keys.total] > 0
            THEN RoundHalfEven(res[keys.with_bypass] * 100, res[keys.total])
            ELSE 0
        with_percentage == ("bypass_percentage" :> bypass_percentage) @@ res
    IN  ("security_score" :> calculate_security_score(with_percentage, component_type))
        @@ with_percentage

\* severity_order: the sort key of generate_refactoring_priorities
SeverityRank(severity) ==
    CASE severity = "High" -> 0
      [] severity = "Medium" -> 1
      [] severity = "Low" -> 2
      [] OTHER -> 3

Identifier(item) ==
    IF "apiName" \in DOMAIN item THEN Get(item, "apiName", "") ELSE Get(item, "name", "")

\* the sort key without the identifier: ties keep their input order
KeyLess_SeverityOnly(a, b) ==
    SeverityRank(a.highest_severity) < SeverityRank(b.highest_severity)

\* key(a) < key(b) on the tuples (rank, identifier)
KeyLess(a, b) ==
    \/ SeverityRank(a.highest_severity) < SeverityRank(b.highest_severity)
    \/ /\ SeverityRank(a.highest_severity) = SeverityRank(b.highest_severity)
       /\ StrLess(Identifier(a), Identifier(b))

\* insert x after every element whose key is not greater (sorted() is stable)
RECURSIVE InsertSorted(_, _)
InsertSorted(sorted, x) ==
    IF sorted = <<>> THEN <<x>>
    ELSE IF KeyLess(x, Head(sorted)) THEN <<x>> \o sorted
    ELSE <<Head(sorted)>> \o InsertSorted(Tail(sorted), x)

RECURSIVE SortedByKey(_)
SortedByKey(components) ==
    IF components = <<>> THEN <<>>
    ELSE InsertSorted(SortedByKey(SubSeq(components, 1, Len(components) - 1)),
                      components[Len(components)])

\* the items sorted from the last to the first: equal keys come out reversed
generate_refactoring_priorities_Reversed(res, component_type) ==
    LET items == res.bypass_patterns
    IN  SortedByKey([i \in 1..Len(items) |-> items[Len(items) + 1 - i]])

generate_refactoring_priorities(res, component_type) ==
    SortedByKey(res.bypass_patterns)

----------------------------------------------------------------------------
(* General recommendations of the two analyzers *)

\* the three recommendations every bypass result gets
StandingBypassRecommendations ==
    <<"Implement a consistent approach to bypass logic across all components",
      "Use custom permissions instead of profiles or user IDs for bypass logic",
      "Document all bypass mechanisms in a central location for security review">>

\* BypassPatternAnalyzer.generate_general_recommendations
BypassPatternAnalyzer_generate_general_recommendations(res, component_type) ==
    StandingBypassRecommendations
    \o (IF component_type = "validation"
        THEN (IF Len(res["rules_by_severity"]["High"]) > 0
              THEN <<"Immediately refactor validation rules with hardcoded User IDs">>
              ELSE <<>>)
             \o (IF Get(res, "bypass_percentage", 0) > 50
                 THEN <<"Review overall validation strategy to reduce reliance on bypass patterns">>
                 ELSE <<>>)
        ELSE IF component_type = "trigger"
        THEN (IF Len(res["triggers_by_severity"]["High"]) > 0
              THEN <<"Immediately refactor triggers with hardcoded User IDs or Profile checks">>
              ELSE <<>>)
             \o <<"Implement a centralized trigger handler framework with consistent bypass logic">>
        ELSE <<>>)
----------------------------------------------------------------------------
(* Inputs *)

\* sequences over S of length at most n
SeqsUpTo(S, n) == UNION {[1..k -> S] : k \in 0..n}

FieldNames ==
    {"nc_Loan_Score__c", "customField__c", "LLC_BI__Loan__c", "LLC_BI__Amount__c",
     "loan_rate__X", "MyLoan", "Account__X", "nc_Rate__c"}

\* field records; the last three lack apiName (fullName is its alias), any name,
\* or every key
FieldRecords ==
    {[apiName |-> n, label |-> "Label", type |-> "Text"] : n \in FieldNames}
    \cup {[fullName |-> "Loan_Amount__c", type |-> "Currency"], [label |-> "Label"],
          EmptyDict}

\* validation rule records; formula and fullName are aliases; the last three lack
\* the name, the last every key
RuleRecords ==
    {[apiName |-> "B", active |-> TRUE, description |-> "d",
      errorConditionFormula |-> "$User.Id === '005000000000001'"],
     [apiName |-> "A", active |-> TRUE,
      errorConditionFormula |-> "$User.Id =!= '005A' && NOT($Permission.Skip)"],
     [apiName |-> "AB", active |-> FALSE,
      errorConditionFormula |-> "$Profile.Name === 'Admin'"],
     [apiName |-> "a", errorConditionFormula |-> "RecordType.Name <> 'Internal'"],
     [apiName |-> "A", errorConditionFormula |-> "NOT($Permission.Bypass_Validation)"],
     [apiName |-> "B", active |-> TRUE,
      errorConditionFormula |-> "$Profile.Name != 'System Administrator'"],
     [fullName |-> "C", formula |-> "NOT($Permission.Skip) && $Profile.Name === 'Ops'"],
     [apiName |-> "A", errorConditionFormula |-> "OwnerId === $User.Id"],
     [errorConditionFormula |-> "Amount > 0"],
     [formula |-> "$Profile.Name === 'Admin'"],
     EmptyDict}

\* trigger records; code is an alias of content; two records named A have the
\* same highest severity; the last two lack the name, the last every key
TriggerRecords ==
    {[name |-> "B", active |-> TRUE,
      content |-> "if (FeatureManagement.checkPermission('Bypass_Loan_Trigger')) return;"],
     [name |-> "A", active |-> TRUE, content |-> "if (Settings__c.Disabled__c) return;"],
     [name |-> "A", content |-> "if (p.Profile.Name == 'Admin') return;"],
     [name |-> "AB", content |-> "if (u.Id == '005000000000001') return;"],
     [name |-> "a", active |-> FALSE, content |-> "if (p.Profile.Name == 'Admin') return;"],
     [name |-> "A",
      code |-> "if (Cfg__c.Off__c || u.Id == \"005000000000001AAA\") return;"],
     [name |-> "C", content |-> "insert acc;"],
     [name |-> "B", content |-> "if (UserInfo.getProfileId() == '00e') return;"],
     [content |-> "if (Cfg__c.Off__c && FeatureManagement.checkPermission ( \"Skip\")) return;"],
     EmptyDict}

\* the values an analyzer may be called with: every list of at most MaxRecords
\* records, None, and tuples and dicts (empty, or holding one record)
ArgsOver(records) ==
    {[kind |-> "list", items |-> s] : s \in SeqsUpTo(records, MaxRecords)}
    \cup {[kind |-> "None", items |-> <<>>]}
    \cup {[kind |-> k, items |-> s] : k \in {"tuple", "dict"}, s \in SeqsUpTo(records, 1)}

\* results structures handed directly to calculate_security_score
ScoreInputs(component_type) ==
    LET keys == ResultKeys(component_type)
    IN  {(keys.with_bypass :> w) @@ (keys.total :> t)
         @@ (keys.by_severity :> [High |-> [i \in 1..h |-> "A"],
                                  Medium |-> [i \in 1..m |-> "B"],
                                  Low |-> <<>>]) :
            w \in (-1)..MaxCount, t \in 0..MaxCount,
            h \in {0, 1, MaxCount, 5 * MaxCount}, m \in {0, 1, 10 * MaxCount}}

----------------------------------------------------------------------------
(* The caller *)

\* no value: no results before a call returns, none when it raises
Nothing == [nothing |-> TRUE]

Init ==
    /\ convention_rules = ConventionRules
    /\ loan_object_conventions = LoanObjectConventions
    /\ validation_rule_patterns = ValidationRulePatterns
    /\ apex_trigger_patterns = ApexTriggerPatterns
    /\ pc = "idle"
    /\ op = "none"
    /\ arg = Nothing
    /\ idx = 0
    /\ results = Nothing
    /\ priorities = Nothing
    /\ score = Nothing
    /\ prev = Nothing

\* entry of an analyzer, called by an idle caller: raise ValueError on invalid input, else build the
\* empty results and enter the loop
Enter(operation, a, fresh) ==
    /\ op' = operation
    /\ arg' = a
    /\ idx' = 0
    /\ IF InvalidInput(a)
       THEN pc' = "raised" /\ results' = Nothing
       ELSE pc' = "loop" /\ results' = fresh
    /\ UNCHANGED <<catalogs, priorities, score, prev>>

\* a call of analyze_fields with one of the given arguments
AnalyzeFieldsCall(args) ==
    /\ pc = "idle"
    /\ \E a \in args : Enter("analyze_fields", a, NewFieldResults(a.items))

\* a loop that consumes the catalog it iterates: the last rule is dropped
AnalyzeFieldsStep_ConsumesCatalog ==
    /\ pc = "loop" /\ op = "analyze_fields"
    /\ idx < Len(arg.items)
    /\ results' = AnalyzeField(results, arg.items[idx + 1],
                               convention_rules, loan_object_conventions)
    /\ idx' = idx + 1
    /\ convention_rules' = SubSeq(convention_rules, 1, Len(convention_rules) - 1)
    /\ UNCHANGED <<loan_object_conventions, validation_rule_patterns,
                   apex_trigger_patterns, pc, op, arg, priorities, score, prev>>

AnalyzeFieldsStep ==
    /\ pc = "loop" /\ op = "analyze_fields"
    /\ idx < Len(arg.items)
    /\ results' = AnalyzeField(results, arg.items[idx + 1],
                               convention_rules, loan_object_conventions)
    /\ idx' = idx + 1
    /\ UNCHANGED <<catalogs, pc, op, arg, priorities, score, prev>>

AnalyzeFieldsFinish ==
    /\ pc = "loop" /\ op = "analyze_fields"
    /\ idx = Len(arg.items)
    /\ results' = WithCompliancePercentage(results)
    /\ pc' = "done"
    /\ UNCHANGED <<catalogs, op, arg, idx, priorities, score, prev>>

AnalyzeValidationRulesCall(args) ==
    /\ pc = "idle"
    /\ \E a \in args :
          Enter("analyze_validation_rules", a,
                NewBypassResults(a.items, validation_rule_patterns, "validation"))

AnalyzeValidationRulesStep ==
    /\ pc = "loop" /\ op = "analyze_validation_rules"
    /\ idx < Len(arg.items)
    /\ results' = AnalyzeRule(results, arg.items[idx + 1], validation_rule_patterns)
    /\ idx' = idx + 1
    /\ UNCHANGED <<catalogs, pc, op, arg, priorities, score, prev>>

AnalyzeValidationRulesFinish ==
    /\ pc = "loop" /\ op = "analyze_validation_rules"
    /\ idx = Len(arg.items)
    /\ results' = WithPercentageAndScore(results, "validation")
    /\ pc' = "done"
    /\ UNCHANGED <<catalogs, op, arg, idx, priorities, score, prev>>

AnalyzeApexTriggersCall(args) ==
    /\ pc = "idle"
    /\ \E a \in args :
          Enter("analyze_apex_triggers", a,
                NewBypassResults(a.items, apex_trigger_patterns, "trigger"))

AnalyzeApexTriggersStep ==
    /\ pc = "loop" /\ op = "analyze_apex_triggers"
    /\ idx < Len(arg.items)
    /\ results' = AnalyzeTrigger(results, arg.items[idx + 1], apex_trigger_patterns)
    /\ idx' = idx + 1
    /\ UNCHANGED <<catalogs, pc, op, arg, priorities, score, prev>>

AnalyzeApexTriggersFinish ==
    /\ pc = "loop" /\ op = "analyze_apex_triggers"
    /\ idx = Len(arg.items)
    /\ results' = WithPercentageAndScore(results, "trigger")
    /\ pc' = "done"
    /\ UNCHANGED <<catalogs, op, arg, idx, priorities, score, prev>>

\* the component type of the analyzer that produced the results
ComponentType(operation) ==
    IF operation = "analyze_apex_triggers" THEN "trigger" ELSE "validation"

\* generate_refactoring_priorities on the results an analyzer returned
\* (mcp_server.py calls it right after the analysis)
GenerateRefactoringPriorities ==
    /\ pc = "done"
    /\ op \in {"analyze_validation_rules", "analyze_apex_triggers"}
    /\ priorities' = generate_refactoring_priorities(results, ComponentType(op))
    /\ pc' = "prioritized"
    /\ UNCHANGED <<catalogs, op, arg, idx, results, score, prev>>

\* calculate_security_score called directly on a results structure
CalculateSecurityScore ==
    /\ pc = "idle"
    /\ \E component_type \in {"validation", "trigger"} :
          \E res \in ScoreInputs(component_type) :
              /\ arg' = [component_type |-> component_type, results |-> res]
              /\ score' = calculate_security_score(res, component_type)
    /\ op' = "calculate_security_score"
    /\ pc' = "scored"
    /\ UNCHANGED <<catalogs, idx, results, priorities, prev>>

\* the caller takes the outcome and is ready for the next call
Forget ==
    /\ pc' = "idle"
    /\ op' = "none"
    /\ arg' = Nothing
    /\ idx' = 0
    /\ results' = Nothing
    /\ priorities' = Nothing
    /\ score' = Nothing

Return ==
    /\ pc \in {"done", "raised", "prioritized", "scored"}
    /\ Forget
    /\ UNCHANGED <<catalogs, prev>>

Next ==
    \/ AnalyzeFieldsCall(ArgsOver(FieldRecords))
    \/ AnalyzeFieldsStep
    \/ AnalyzeFieldsFinish
    \/ AnalyzeValidationRulesCall(ArgsOver(RuleRecords))
    \/ AnalyzeValidationRulesStep
    \/ AnalyzeValidationRulesFinish
    \/ AnalyzeApexTriggersCall(ArgsOver(TriggerRecords))
    \/ AnalyzeApexTriggersStep
    \/ AnalyzeApexTriggersFinish
    \/ GenerateRefactoringPriorities
    \/ CalculateSecurityScore
    \/ Return

Spec == Init /\ [][Next]_vars

----------------------------------------------------------------------------
(* Repeated calls on one analyzer instance.  The caller may keep the outcome
   of a completed call (prev) and compare it with a later call's. *)

\* the records the repeated calls are made with
IdemFieldRecords ==
    {[apiName |-> "nc_Loan_Score__c", label |-> "Label", type |-> "Text"],
     [apiName |-> "loan_rate__X", label |-> "Label", type |-> "Text"]}

IdemRuleRecords ==
    {[apiName |-> "A", active |-> TRUE,
      errorConditionFormula |-> "$User.Id =!= '005A' && NOT($Permission.Skip)"],
     [apiName |-> "B", active |-> TRUE,
      errorConditionFormula |-> "$Profile.Name != 'System Administrator'"]}

IdemTriggerRecords ==
    {[name |-> "A", active |-> TRUE, content |-> "if (Settings__c.Disabled__c) return;"],
     [name |-> "C", content |-> "insert acc;"]}

\* lists of at most MaxRecords records, and None
IdemArgsOver(records) ==
    {[kind |-> "list", items |-> s] : s \in SeqsUpTo(records, MaxRecords)}
    \cup {[kind |-> "None", items |-> <<>>]}

\* the caller keeps the outcome of the call that just completed
ReturnAndKeep ==
    /\ pc \in {"done", "raised"}
    /\ prev' = [op |-> op, arg |-> arg, outcome |-> pc, results |-> results]
    /\ Forget
    /\ UNCHANGED catalogs

NextIdem ==
    \/ AnalyzeFieldsCall(IdemArgsOver(IdemFieldRecords))
    \/ AnalyzeFieldsStep
    \/ AnalyzeFieldsFinish
    \/ AnalyzeValidationRulesCall(IdemArgsOver(IdemRuleRecords))
    \/ AnalyzeValidationRulesStep
    \/ AnalyzeValidationRulesFinish
    \/ AnalyzeApexTriggersCall(IdemArgsOver(IdemTriggerRecords))
    \/ AnalyzeApexTriggersStep
    \/ AnalyzeApexTriggersFinish
    \/ ReturnAndKeep
    \/ Return

SpecIdem == Init /\ [][NextIdem]_vars


----------------------------------------------------------------------------
(* Report generator: src/utils/report_generator.py.  The analyses dict is a
   function from its keys to their values; a key that is not supplied is not in
   its domain. *)

\* list(dict.fromkeys(xs)): the first occurrence of every element, in order
DictFromKeys(xs) ==
    LET first == {i \in 1..Len(xs) : \A j \in 1..(i - 1) : xs[j] # xs[i]}
        Nth(k) == CHOOSE i \in first : Cardinality({j \in first : j <= i}) = k
    IN  [k \in 1..Cardinality(first) |-> xs[Nth(k)]]

\* the standing recommendations of generate_recommendations
GovernanceRecommendations ==
    <<"Implement a governance process to regularly review and audit configuration changes.",
      "Document all configuration standards and patterns in a central location.",
      "Provide training to developers on secure and maintainable configuration practices.">>

\* generate_recommendations without the removal of duplicates
generate_recommendations_KeepsDuplicates(analyses) ==
    LET summary == Get(analyses, "naming_conventions_summary", EmptyDict)
    IN  Get(summary, "recommendations", <<>>)
        \o Get(analyses, "validation_rules_recommendations", <<>>)
        \o Get(analyses, "triggers_recommendations", <<>>)
        \o GovernanceRecommendations

generate_recommendations(analyses) ==
    LET summary == Get(analyses, "naming_conventions_summary", EmptyDict)
    IN  DictFromKeys(Get(summary, "recommendations", <<>>)
                     \o Get(analyses, "validation_rules_recommendations", <<>>)
                     \o Get(analyses, "triggers_recommendations", <<>>)
                     \o GovernanceRecommendations)

\* the keys of the three domains in the analyses dict, with the key of the
\* severity buckets and the names of the critical, medium and low bucket
Domains ==
    <<[key |-> "naming_conventions", by_severity |-> "by_severity",
       critical |-> "critical", medium |-> "medium", low |-> "low"],
      [key |-> "validation_rules", by_severity |-> "rules_by_severity",
       critical |-> "High", medium |-> "Medium", low |-> "Low"],
      [key |-> "triggers", by_severity |-> "triggers_by_severity",
       critical |-> "High", medium |-> "Medium", low |-> "Low"]>>

\* len(analyses[domain].get(by_severity, {}).get(bucket, [])), 0 for a domain that
\* is not in analyses
BucketSize(analyses, domain, bucket) ==
    IF domain.key \in DOMAIN analyses
    THEN Len(Get(Get(analyses[domain.key], domain.by_severity, EmptyDict),
                 domain[bucket], <<>>))
    ELSE 0

\* risks_identified: the bucket sizes summed over the three domains
RisksIdentified(analyses) ==
    [level \in {"critical", "medium", "low"} |->
        BucketSize(analyses, Domains[1], level)
            + BucketSize(analyses, Domains[2], level)
            + BucketSize(analyses, Domains[3], level)]

\* the three assessments of generate_executive_summary
CriticalAttention ==
    "Critical attention required. The configuration contains significant risk factors that should be addressed immediately."

ModerateRisk ==
    "Moderate risk identified. The configuration has several issues that should be addressed in the near term."

LowRisk ==
    "Low risk identified. The configuration is generally sound with minor improvements recommended."

\* critical_percent = critical / total_issues * 100 > 20, as a comparison of integers
\* (critical_percent is 0 when there is no issue)
OverallAssessment(risks, critical_share_above_20) ==
    IF risks.critical > 5 \/ critical_share_above_20 THEN CriticalAttention
    ELSE IF risks.critical > 0 \/ risks.medium > 10 THEN ModerateRisk
    ELSE LowRisk

KeyFindings(analyses) ==
    (IF "naming_conventions" \in DOMAIN analyses
     THEN <<[fmt |-> "{compliance_percentage}% of fields comply with naming conventions.",
             args |-> <<Get(analyses["naming_conventions"], "compliance_percentage", 0)>>]>>
     ELSE <<>>)
    \o (IF "validation_rules" \in DOMAIN analyses
        THEN <<[fmt |-> "{bypass_percentage}% of validation rules contain bypass patterns.",
                args |-> <<Get(analyses["validation_rules"], "bypass_percentage", 0)>>]>>
        ELSE <<>>)
    \o (IF "triggers" \in DOMAIN analyses
        THEN <<[fmt |-> "{bypass_percentage}% of Apex triggers contain bypass patterns.",
                args |-> <<Get(analyses["triggers"], "bypass_percentage", 0)>>]>>
        ELSE <<>>)

\* generate_executive_summary with the share of critical issues compared by >= 20
generate_executive_summary_ShareInclusive(analyses) ==
    LET risks == RisksIdentified(analyses)
        total_issues == risks.critical + risks.medium + risks.low
    IN  [overall_assessment |->
             OverallAssessment(risks, total_issues > 0
                                      /\ risks.critical * 100 >= 20 * total_issues),
         key_findings |-> KeyFindings(analyses),
         risks_identified |-> risks]

generate_executive_summary(analyses) ==
    LET risks == RisksIdentified(analyses)
        total_issues == risks.critical + risks.medium + risks.low
    IN  [overall_assessment |->
             OverallAssessment(risks, total_issues > 0
                                      /\ risks.critical * 100 > 20 * total_issues),
         key_findings |-> KeyFindings(analyses),
         risks_identified |-> risks]

\* twice the weights 1, 1.5 and 1.5 of calculate_overall_score
Weights == [naming_conventions |-> 2, validation_rules |-> 3, triggers |-> 3]

\* the key of a domain's score
ScoreKey(domain) ==
    IF domain = "naming_conventions" THEN "compliance_percentage" ELSE "security_score"

\* analyses.get(domain, {}).get(score key, 0)
ComponentScore(analyses, domain) ==
    Get(Get(analyses, domain, EmptyDict), ScoreKey(domain), 0)

\* the bands of the rating with strict comparisons
Rating_Strict(weighted_average) ==
    IF weighted_average > 90 THEN "Excellent"
    ELSE IF weighted_average > 75 THEN "Good"
    ELSE IF weighted_average > 60 THEN "Fair"
    ELSE IF weighted_average > 40 THEN "Poor"
    ELSE "Critical"

\* the rating of a rounded weighted average
Rating(weighted_average) ==
    IF weighted_average >= 90 THEN "Excellent"
    ELSE IF weighted_average >= 75 THEN "Good"
    ELSE IF weighted_average >= 60 THEN "Fair"
    ELSE IF weighted_average >= 40 THEN "Poor"
    ELSE "Critical"

\* calculate_overall_score giving every domain the weight 1
calculate_overall_score_EqualWeights(analyses) ==
    LET present == {d \in DOMAIN Weights : d \in DOMAIN analyses}
        Weighted(d) == IF d \in present THEN ComponentScore(analyses, d) ELSE 0
        Weight(d) == IF d \in present THEN 1 ELSE 0
        weighted_sum == Weighted("naming_conventions") + Weighted("validation_rules")
                            + Weighted("triggers")
        total_weight == Weight("naming_conventions") + Weight("validation_rules")
                            + Weight("triggers")
        weighted_average == RoundHalfEven(weighted_sum, total_weight)
    IN  IF present = {}
        THEN [score |-> 0, rating |-> "N/A"]
        ELSE [score |-> weighted_average,
              rating |-> Rating(weighted_average),
              component_scores |->
                  [d \in DOMAIN Weights |-> ComponentScore(analyses, d)]]

calculate_overall_score(analyses) ==
    LET present == {d \in DOMAIN Weights : d \in DOMAIN analyses}
        Weighted(d) == IF d \in present THEN ComponentScore(analyses, d) * Weights[d] ELSE 0
        Weight(d) == IF d \in present THEN Weights[d] ELSE 0
        weighted_sum == Weighted("naming_conventions") + Weighted("validation_rules")
                            + Weighted("triggers")
        total_weight == Weight("naming_conventions") + Weight("validation_rules")
                            + Weight("triggers")
        weighted_average == RoundHalfEven(weighted_sum, total_weight)
    IN  IF present = {}
        THEN [score |-> 0, rating |-> "N/A"]
        ELSE [score |-> weighted_average,
              rating |-> Rating(weighted_average),
              component_scores |->
                  [d \in DOMAIN Weights |-> ComponentScore(analyses, d)]]

\* x[:5]
FirstFive(x) == SubSeq(x, 1, Min(5, Len(x)))

\* the detailed findings of one bypass domain; the flagged item is named by
\* apiName for validation rules and by name for triggers
BypassFindings(analyses, domain, item_key, id_key) ==
    LET res == analyses[domain]
        flagged == Get(res, "bypass_patterns", <<>>)
        Names(patterns) == [k \in 1..Len(patterns) |-> Get(patterns[k], "name", "")]
    IN  [security_score |-> Get(res, "security_score", 0),
         bypass_percentage |-> Get(res, "bypass_percentage", 0),
         patterns |->
             [i \in 1..Len(flagged) |->
                 (item_key :> Get(flagged[i], id_key, ""))
                 @@ [patterns |-> Names(Get(flagged[i], "patterns", <<>>)),
                     severity |-> Get(flagged[i], "highest_severity", "")]],
         refactoring_priorities |->
             FirstFive(Get(analyses,
                           IF domain = "triggers"
                           THEN "triggers_refactoring_priorities"
                           ELSE "validation_rules_refactoring_priorities",
                           <<>>))]

NamingFindings(analyses) ==
    LET res == analyses["naming_conventions"]
        violations == Get(res, "violations", <<>>)
        Rules(issues) == [k \in 1..Len(issues) |-> Get(issues[k], "rule", "")]
    IN  [compliance_percentage |-> Get(res, "compliance_percentage", 0),
         violations |->
             [i \in 1..Len(violations) |->
                 [field |-> Get(violations[i], "apiName", ""),
                  issues |-> Rules(Get(violations[i], "violations", <<>>)),
                  recommendation |-> Get(violations[i], "recommended_fix", "")]],
         top_issues |->
             Get(Get(analyses, "naming_conventions_summary", EmptyDict),
                 "top_issues", <<>>)]

DetailedFindings(analyses) ==
    [d \in {d \in DOMAIN Weights : d \in DOMAIN analyses} |->
        CASE d = "naming_conventions" -> NamingFindings(analyses)
          [] d = "validation_rules" -> BypassFindings(analyses, d, "rule", "apiName")
          [] d = "triggers" -> BypassFindings(analyses, d, "trigger", "name")]

generate_comprehensive_report(analyses) ==
    [executive_summary |-> generate_executive_summary(analyses),
     detailed_findings |-> DetailedFindings(analyses),
     recommendations |-> generate_recommendations(analyses),
     overall_score |-> calculate_overall_score(analyses)]

----------------------------------------------------------------------------
(* Inputs of the report generator *)

\* n entries of a list whose length alone is read
Items(n) == [i \in 1..n |-> "A"]

\* a key of the analyses dict that the caller supplies or does not supply
Supplied(values) ==
    {[present |-> FALSE, value |-> EmptyDict]}
    \cup {[present |-> TRUE, value |-> v] : v \in values}

\* the part of the analyses dict made by one key
Entry(key, option) == IF option.present THEN key :> option.value ELSE EmptyDict

\* the scores of a domain: the ends of the rating bands and of the range
ScoreValues == {0, 39, 40, 59, 60, 74, 75, 89, 90, 100}

\* analyses whose domains carry a score, or are an empty dict, or are missing
ScoreAnalyses ==
    {Entry("naming_conventions", n) @@ Entry("validation_rules", v)
        @@ Entry("triggers", t) :
        n \in Supplied({[compliance_percentage |-> s] : s \in ScoreValues}
                       \cup {EmptyDict}),
        v \in Supplied({[security_score |-> s] : s \in ScoreValues}),
        t \in Supplied({[security_score |-> s] : s \in ScoreValues})}

\* analyses whose domains carry severity buckets of sizes around the thresholds
\* of the assessment (critical 5, critical share 20%, medium 10)
RiskAnalyses ==
    {Entry("naming_conventions", n) @@ Entry("validation_rules", v)
        @@ Entry("triggers", t) :
        n \in Supplied({[compliance_percentage |-> 0,
                         by_severity |-> [critical |-> Items(c), medium |-> <<>>,
                                          low |-> Items(l)]] :
                            c \in {0, 1, 5}, l \in {0, 4, 20}}),
        v \in Supplied({[security_score |-> 50, bypass_percentage |-> 100,
                         rules_by_severity |-> [High |-> Items(h), Medium |-> Items(m),
                                                Low |-> <<>>]] :
                            h \in {0, 1}, m \in {0, 10, 11}}),
        t \in Supplied({[security_score |-> 50, bypass_percentage |-> 100,
                         triggers_by_severity |-> [High |-> Items(h), Medium |-> Items(m),
                                                   Low |-> Items(l)]] :
                            h \in {0, 1}, m \in {0, 1}, l \in {0, 4}})}

\* recommendations the lists are drawn from: one of the naming analyzer, one that
\* both bypass lists hold, and one equal to a standing recommendation of the report
RecommendationPool ==
    {"Regularly review and audit field naming as part of maintenance practices",
     "Document all bypass mechanisms in a central location for security review",
     GovernanceRecommendations[2]}

\* analyses that carry recommendation lists: the naming summary may lack the list
RecommendationAnalyses ==
    LET lists == SeqsUpTo(RecommendationPool, MaxRecommendations)
    IN  {Entry("naming_conventions_summary", n)
            @@ Entry("validation_rules_recommendations", v)
            @@ Entry("triggers_recommendations", t) :
            n \in Supplied({[recommendations |-> r] : r \in lists}
                           \cup {[top_issues |-> <<>>]}),
            v \in Supplied(lists),
            t \in Supplied(lists)}

\* the result analyze_fields returns for a valid list of fields
AnalyzeFieldsResult(fields) ==
    LET after[i \in 0..Len(fields)] ==
            IF i = 0 THEN NewFieldResults(fields)
            ELSE AnalyzeField(after[i - 1], fields[i],
                              ConventionRules, LoanObjectConventions)
    IN  WithCompliancePercentage(after[Len(fields)])

\* the result analyze_validation_rules returns for a valid list of rules
AnalyzeValidationRulesResult(rules) ==
    LET after[i \in 0..Len(rules)] ==
            IF i = 0 THEN NewBypassResults(rules, ValidationRulePatterns, "validation")
            ELSE AnalyzeRule(after[i - 1], rules[i], ValidationRulePatterns)
    IN  WithPercentageAndScore(after[Len(rules)], "validation")

\* the result analyze_apex_triggers returns for a valid list of triggers
AnalyzeApexTriggersResult(triggers) ==
    LET after[i \in 0..Len(triggers)] ==
            IF i = 0 THEN NewBypassResults(triggers, ApexTriggerPatterns, "trigger")
            ELSE AnalyzeTrigger(after[i - 1], triggers[i], ApexTriggerPatterns)
    IN  WithPercentageAndScore(after[Len(triggers)], "trigger")

\* non-empty lists of at most two of the given records
ShortLists(records) == SeqsUpTo(records, 2) \ {<<>>}

\* analyses assembled as the generate_report tool assembles them from the
\* outputs of the analysis tools (without the recommendation lists)
PipelineAnalyses ==
    {Entry("naming_conventions", n)
        @@ (IF v.present
            THEN [validation_rules |-> v.value,
                  validation_rules_refactoring_priorities |->
                      generate_refactoring_priorities(v.value, "validation")]
            ELSE EmptyDict)
        @@ (IF t.present
            THEN [triggers |-> t.value,
                  triggers_refactoring_priorities |->
                      generate_refactoring_priorities(t.value, "trigger")]
            ELSE EmptyDict) :
        n \in Supplied({AnalyzeFieldsResult(f) : f \in ShortLists(IdemFieldRecords)}),
        v \in Supplied({AnalyzeValidationRulesResult(r) :
                           r \in ShortLists(IdemRuleRecords)}),
        t \in Supplied({AnalyzeApexTriggersResult(r) :
                           r \in ShortLists(IdemTriggerRecords)})}

ReportInputs ==
    ScoreAnalyses \cup RiskAnalyses \cup RecommendationAnalyses \cup PipelineAnalyses

----------------------------------------------------------------------------
(* Building reports *)

\* generate_comprehensive_report called on an analyses dict
GenerateComprehensiveReport ==
    /\ pc = "idle"
    /\ \E analyses \in ReportInputs :
          /\ arg' = analyses
          /\ results' = generate_comprehensive_report(analyses)
    /\ op' = "generate_comprehensive_report"
    /\ pc' = "reported"
    /\ UNCHANGED <<catalogs, idx, priorities, score, prev>>

\* the caller takes the report
ReturnReport ==
    /\ pc = "reported"
    /\ Forget
    /\ UNCHANGED <<catalogs, prev>>

NextReport ==
    \/ GenerateComprehensiveReport
    \/ ReturnReport

SpecReport == Init /\ [][NextReport]_vars

----------------------------------------------------------------------------
(* Parallel callers of the shared analyzer instances (mcp_server.py 38-41).
   Every caller has its own position, argument, loop index and results dict,
   the locals of its call: pc, op, arg, idx and results are functions of the
   caller.  The catalogs are the attributes of the shared instances.  prev
   records, for each caller, whether a step of its call ran while the loop of
   another caller was under way. *)

Callers == {"caller1", "caller2"}

\* the records the parallel calls are made with
ParallelRecords(operation) ==
    CASE operation = "analyze_fields" -> IdemFieldRecords
      [] operation = "analyze_validation_rules" -> IdemRuleRecords
      [] operation = "analyze_apex_triggers" -> IdemTriggerRecords

\* lists of at most MaxParallelRecords records, and None
ParallelArgs(operation) ==
    {[kind |-> "list", items |-> s] :
        s \in SeqsUpTo(ParallelRecords(operation), MaxParallelRecords)}
    \cup {[kind |-> "None", items |-> <<>>]}

InitParallel ==
    /\ convention_rules = ConventionRules
    /\ loan_object_conventions = LoanObjectConventions
    /\ validation_rule_patterns = ValidationRulePatterns
    /\ apex_trigger_patterns = ApexTriggerPatterns
    /\ pc = [c \in Callers |-> "idle"]
    /\ op = [c \in Callers |-> "none"]
    /\ arg = [c \in Callers |-> Nothing]
    /\ idx = [c \in Callers |-> 0]
    /\ results = [c \in Callers |-> Nothing]
    /\ priorities = Nothing
    /\ score = Nothing
    /\ prev = [c \in Callers |-> FALSE]

\* the empty results an analyzer builds at its entry
FreshResults(operation, a) ==
    CASE operation = "analyze_fields" -> NewFieldResults(a.items)
      [] operation = "analyze_validation_rules" ->
            NewBypassResults(a.items, validation_rule_patterns, "validation")
      [] operation = "analyze_apex_triggers" ->
            NewBypassResults(a.items, apex_trigger_patterns, "trigger")

\* the results after one iteration of an analyzer's loop, which reads the catalogs
\* of the shared instance
IterationResults(operation, res, record) ==
    CASE operation = "analyze_fields" ->
            AnalyzeField(res, record, convention_rules, loan_object_conventions)
      [] operation = "analyze_validation_rules" ->
            AnalyzeRule(res, record, validation_rule_patterns)
      [] operation = "analyze_apex_triggers" ->
            AnalyzeTrigger(res, record, apex_trigger_patterns)

\* the results an analyzer returns after its loop
FinalResults(operation, res) ==
    CASE operation = "analyze_fields" -> WithCompliancePercentage(res)
      [] operation = "analyze_validation_rules" -> WithPercentageAndScore(res, "validation")
      [] operation = "analyze_apex_triggers" -> WithPercentageAndScore(res, "trigger")

\* the loop of another caller is under way
OthersInLoop(c) ==
    \E k \in Callers \ {c} : pc[k] = "loop" /\ idx[k] >= 1 /\ idx[k] < Len(arg[k].items)

\* a caller enters an analyzer
CallerCall(c) ==
    /\ pc[c] = "idle"
    /\ \E operation \in {"analyze_fields", "analyze_validation_rules",
                         "analyze_apex_triggers"} :
          \E a \in ParallelArgs(operation) :
              /\ op' = [op EXCEPT ![c] = operation]
              /\ arg' = [arg EXCEPT ![c] = a]
              /\ IF InvalidInput(a)
                 THEN /\ pc' = [pc EXCEPT ![c] = "raised"]
                      /\ results' = [results EXCEPT ![c] = Nothing]
                 ELSE /\ pc' = [pc EXCEPT ![c] = "loop"]
                      /\ results' = [results EXCEPT ![c] = FreshResults(operation, a)]
    /\ idx' = [idx EXCEPT ![c] = 0]
    /\ prev' = [prev EXCEPT ![c] = FALSE]
    /\ UNCHANGED <<catalogs, priorities, score>>

\* an iteration that accumulates into one results dict kept on the instance,
\* which every caller then holds
CallerStep_SharedResults(c) ==
    /\ pc[c] = "loop"
    /\ idx[c] < Len(arg[c].items)
    /\ results' = [k \in Callers |->
                      IterationResults(op[c], results[c], arg[c].items[idx[c] + 1])]
    /\ idx' = [idx EXCEPT ![c] = idx[c] + 1]
    /\ prev' = [prev EXCEPT ![c] = prev[c] \/ OthersInLoop(c)]
    /\ UNCHANGED <<catalogs, pc, op, arg, priorities, score>>

\* one iteration of the loop of a caller's analyzer
CallerStep(c) ==
    /\ pc[c] = "loop"
    /\ idx[c] < Len(arg[c].items)
    /\ results' = [results EXCEPT ![c] =
                      IterationResults(op[c], results[c], arg[c].items[idx[c] + 1])]
    /\ idx' = [idx EXCEPT ![c] = idx[c] + 1]
    /\ prev' = [prev EXCEPT ![c] = prev[c] \/ OthersInLoop(c)]
    /\ UNCHANGED <<catalogs, pc, op, arg, priorities, score>>

\* the analyzer of a caller computes its percentage and score and returns
CallerFinish(c) ==
    /\ pc[c] = "loop"
    /\ idx[c] = Len(arg[c].items)
    /\ results' = [results EXCEPT ![c] = FinalResults(op[c], results[c])]
    /\ pc' = [pc EXCEPT ![c] = "done"]
    /\ UNCHANGED <<catalogs, op, arg, idx, priorities, score, prev>>

\* a caller takes the outcome of its call
CallerReturn(c) ==
    /\ pc[c] \in {"done", "raised"}
    /\ pc' = [pc EXCEPT ![c] = "idle"]
    /\ op' = [op EXCEPT ![c] = "none"]
    /\ arg' = [arg EXCEPT ![c] = Nothing]
    /\ idx' = [idx EXCEPT ![c] = 0]
    /\ results' = [results EXCEPT ![c] = Nothing]
    /\ prev' = [prev EXCEPT ![c] = FALSE]
    /\ UNCHANGED <<catalogs, priorities, score>>

NextParallel ==
    \E c \in Callers :
        \/ CallerCall(c)
        \/ CallerStep(c)
        \/ CallerFinish(c)
        \/ CallerReturn(c)

SpecParallel == InitParallel /\ [][NextParallel]_vars
----------------------------------------------------------------------------
(* Recommendations: the functions the tools of mcp_server.py call on the
   results of an analysis, and generate_recommendation.  arg holds the
   arguments of the call and results the value it returns. *)

\* numbers of analyzed and of flagged components: small ones, and large ones
\* whose percentage lies next to 50
ComponentCounts ==
    {[total |-> t, with_bypass |-> w] :
        t \in {1, 2, 3, 101, 200}, w \in {0, 1, 2, 50, 51, 100, 101, 200}}

\* the results a bypass analyzer returns for records of which with_bypass are
\* flagged, high of them High and the others Medium
BypassResultsOf(component_type, total, with_bypass, high) ==
    LET keys == ResultKeys(component_type)
    IN  WithPercentageAndScore(
            (keys.by_severity :> [High |-> Items(high),
                                  Medium |-> Items(with_bypass - high),
                                  Low |-> <<>>])
            @@ (keys.total :> total)
            @@ (keys.with_bypass :> with_bypass),
            component_type)

\* results given to generate_general_recommendations: those of analyses of one
\* or two records, and those of analyses of many records
BypassRecommendationInputs(component_type) ==
    (IF component_type = "trigger"
     THEN {AnalyzeApexTriggersResult(r) : r \in ShortLists(IdemTriggerRecords)}
     ELSE {AnalyzeValidationRulesResult(r) : r \in ShortLists(IdemRuleRecords)})
    \cup {BypassResultsOf(component_type, n.total, n.with_bypass, high) :
             n \in {n \in ComponentCounts : 1 <= n.with_bypass /\ n.with_bypass <= n.total},
             high \in {0, 1}}
    \cup {BypassResultsOf(component_type, n.total, 0, 0) :
             n \in {n \in ComponentCounts : n.with_bypass = 0}}

\* generate_general_recommendations of the bypass analyzer, called as the two
\* bypass tools call it
BypassGenerateGeneralRecommendations ==
    /\ pc = "idle"
    /\ \E component_type \in {"validation", "trigger"} :
          \E res \in BypassRecommendationInputs(component_type) :
              /\ arg' = [component_type |-> component_type, results |-> res]
              /\ results' = BypassPatternAnalyzer_generate_general_recommendations(
                                res, component_type)
    /\ op' = "BypassPatternAnalyzer.generate_general_recommendations"
    /\ pc' = "advised"
    /\ UNCHANGED <<catalogs, idx, priorities, score, prev>>

\* the five recommendations of the naming analyzer, in the order of the code
NamingRecommendations ==
    <<"Immediately address critical naming violations to prevent potential conflicts and maintenance issues",
      "Create and document clear naming conventions and socialize with team",
      "Consider implementing automated validation for field naming during development",
      "Address medium-severity naming issues in next planned refactoring cycle",
      "Regularly review and audit field naming as part of maintenance practices">>

\* the compliance threshold applied with <= instead of <
NamingConventionAnalyzer_generate_general_recommendations_AtMost70(res) ==
    LET critical == Len(res["by_severity"]["critical"])
        medium == Len(res["by_severity"]["medium"])
    IN  (IF critical > 0 THEN <<NamingRecommendations[1]>> ELSE <<>>)
        \o (IF res["compliance_percentage"] <= 70
            THEN <<NamingRecommendations[2], NamingRecommendations[3]>>
            ELSE <<>>)
        \o (IF critical = 0 /\ medium > 0 THEN <<NamingRecommendations[4]>> ELSE <<>>)
        \o <<NamingRecommendations[5]>>

\* NamingConventionAnalyzer.generate_general_recommendations
NamingConventionAnalyzer_generate_general_recommendations(res) ==
    LET critical == Len(res["by_severity"]["critical"])
        medium == Len(res["by_severity"]["medium"])
    IN  (IF critical > 0 THEN <<NamingRecommendations[1]>> ELSE <<>>)
        \o (IF res["compliance_percentage"] < 70
            THEN <<NamingRecommendations[2], NamingRecommendations[3]>>
            ELSE <<>>)
        \o (IF critical = 0 /\ medium > 0 THEN <<NamingRecommendations[4]>> ELSE <<>>)
        \o <<NamingRecommendations[5]>>

\* identify_top_issues: the rule texts of all violations counted, listed by
\* descending count (texts of equal count in the order of their first occurrence),
\* at most five
identify_top_issues(violations) ==
    LET rules_upto[i \in 0..Len(violations)] ==
            IF i = 0 THEN <<>>
            ELSE rules_upto[i - 1]
                 \o [k \in 1..Len(violations[i].violations) |->
                        Get(violations[i].violations[k], "rule", "")]
        rules == rules_upto[Len(violations)]
        issue_types == DictFromKeys(rules)
        Count(rule) == Cardinality({k \in 1..Len(rules) : rules[k] = rule})
        Rank(i) == 1 + Cardinality({j \in 1..Len(issue_types) :
                        \/ Count(issue_types[j]) > Count(issue_types[i])
                        \/ (Count(issue_types[j]) = Count(issue_types[i]) /\ j < i)})
        At(k) == CHOOSE i \in 1..Len(issue_types) : Rank(i) = k
    IN  FirstFive([k \in 1..Len(issue_types) |->
                      [rule |-> issue_types[At(k)], count |-> Count(issue_types[At(k)])]])

generate_summary_report(res) ==
    [total_fields |-> res["total_field_count"],
     compliant_fields |-> res["compliant_field_count"],
     compliance_percentage |-> res["compliance_percentage"],
     violation_count |-> Len(res["violations"]),
     critical_violations |-> Len(res["by_severity"]["critical"]),
     medium_violations |-> Len(res["by_severity"]["medium"]),
     low_violations |-> Len(res["by_severity"]["low"]),
     top_issues |-> identify_top_issues(res["violations"]),
     recommendations |-> NamingConventionAnalyzer_generate_general_recommendations(res)]

\* compliance percentages on both sides of the threshold 70
CompliancePercentages == {0, 69, 70, 71, 100}

\* results given to generate_general_recommendations: bucket sizes and
\* compliance percentages in every combination
NamingRecommendationInputs ==
    {[compliance_percentage |-> p,
      by_severity |-> [critical |-> Items(c), medium |-> Items(m), low |-> Items(l)]] :
        p \in CompliancePercentages, c \in 0..2, m \in 0..2, l \in 0..1}

\* generate_general_recommendations of the naming analyzer called on a results
\* structure
NamingGenerateGeneralRecommendations ==
    /\ pc = "idle"
    /\ \E res \in NamingRecommendationInputs :
          /\ arg' = [results |-> res]
          /\ results' = NamingConventionAnalyzer_generate_general_recommendations(res)
    /\ op' = "NamingConventionAnalyzer.generate_general_recommendations"
    /\ pc' = "advised"
    /\ UNCHANGED <<catalogs, idx, priorities, score, prev>>

\* generate_summary_report called on the results of analyze_fields, as the tool
\* analyze_naming_conventions calls it
GenerateSummaryReport ==
    /\ pc = "idle"
    /\ \E fields \in SeqsUpTo(FieldRecords, MaxSummaryFields) \ {<<>>} :
          LET res == AnalyzeFieldsResult(fields)
          IN  /\ arg' = [fields |-> fields, results |-> res]
              /\ results' = generate_summary_report(res)
    /\ op' = "generate_summary_report"
    /\ pc' = "advised"
    /\ UNCHANGED <<catalogs, idx, priorities, score, prev>>

\* names given to generate_recommendation
RecommendationNames ==
    {"", "loan_rate__X", "loan_rate", "Account__X", "Old__X_Rate__X", "MyLoan",
     "Loan_Amount__c", "nc_Loan_Score__c", "LLC_BI__Loan__c", "customField__c"}

\* the violations analyze_fields can put in a list (the three of the catalog and
\* the two of the Loan checks), and one that has no rule text
ViolationPool ==
    {[rule |-> ConventionRules[k].description,
      pattern |-> ConventionRules[k].pattern,
      expected |-> ConventionRules[k].expected] : k \in 1..Len(ConventionRules)}
    \cup {[rule |-> "Loan-related fields must follow standard or custom patterns",
           severity |-> "critical"],
          [rule |-> "Field uses an invalid naming pattern", severity |-> "critical"],
          EmptyDict}

\* api_name[0] of an empty name (line 167) raises IndexError
RaisesIndexError(api_name, violations) ==
    /\ \E i \in 1..Len(violations) : RuleMentions(violations[i], "lowercase")
    /\ Chars[api_name] = <<>>

\* generate_recommendation called on a name and a list of violations
GenerateRecommendation ==
    /\ pc = "idle"
    /\ \E api_name \in RecommendationNames :
          \E violations \in SeqsUpTo(ViolationPool, MaxViolations) :
              /\ arg' = [api_name |-> api_name, violations |-> violations]
              /\ IF RaisesIndexError(api_name, violations)
                 THEN pc' = "raised" /\ results' = Nothing
                 ELSE /\ pc' = "advised"
                      /\ results' = generate_recommendation(api_name, violations)
    /\ op' = "generate_recommendation"
    /\ UNCHANGED <<catalogs, idx, priorities, score, prev>>

\* the caller takes the returned value
ReturnAdvice ==
    /\ pc \in {"advised", "raised"}
    /\ Forget
    /\ UNCHANGED <<catalogs, prev>>

NextAdvice ==
    \/ BypassGenerateGeneralRecommendations
    \/ NamingGenerateGeneralRecommendations
    \/ GenerateSummaryReport
    \/ GenerateRecommendation
    \/ ReturnAdvice

SpecAdvice == Init /\ [][NextAdvice]_vars
----------------------------------------------------------------------------
(* The tools of mcp_server.py.  A tool returns a dict with success true and its
   results, or, when anything raised, with success false, error and message. *)

\* None as a value: an argument left at its default, the result of dict.get for
\* a key that is missing
None == [kind |-> "None", items |-> <<>>]

\* the except branch of a tool: the output made of the exception's text
FailedOutput(error, failed_to) ==
    [success |-> FALSE,
     error |-> error,
     message |-> [fmt |-> failed_to, args |-> <<error>>]]

\* the output of analyze_naming_conventions once analyze_fields returned res
NamingOutput(fields, res) ==
    [success |-> TRUE,
     results |-> res,
     summary |-> generate_summary_report(res),
     message |-> [fmt |-> "Analyzed {len(fields_to_analyze)} fields. Compliance: {results['compliance_percentage']}%",
                  args |-> <<Len(fields.items), res.compliance_percentage>>]]

\* the tool analyze_naming_conventions called with fields (no resource_id)
analyze_naming_conventions(fields) ==
    IF InvalidInput(fields)
    THEN FailedOutput("No valid fields provided for analysis",
                      "Failed to analyze naming conventions: {str(e)}")
    ELSE NamingOutput(fields, AnalyzeFieldsResult(fields.items))

\* the output of analyze_validation_rules and of analyze_apex_triggers once the
\* analyzer returned res for the records of component_type
BypassOutput(records, res, component_type, analyzed) ==
    [success |-> TRUE,
     results |-> res,
     refactoring_priorities |-> generate_refactoring_priorities(res, component_type),
     recommendations |->
         BypassPatternAnalyzer_generate_general_recommendations(res, component_type),
     message |-> [fmt |-> analyzed,
                  args |-> <<Len(records.items), res.security_score>>]]

\* the tool analyze_validation_rules called with validation_rules
analyze_validation_rules(validation_rules) ==
    IF InvalidInput(validation_rules)
    THEN FailedOutput("No valid validation rules provided for analysis",
                      "Failed to analyze validation rules: {str(e)}")
    ELSE BypassOutput(validation_rules,
                      AnalyzeValidationRulesResult(validation_rules.items),
                      "validation",
                      "Analyzed {len(rules_to_analyze)} validation rules. Security score: {results['security_score']}/100")

\* the tool analyze_apex_triggers called with triggers
analyze_apex_triggers(triggers) ==
    IF InvalidInput(triggers)
    THEN FailedOutput("No valid triggers provided for analysis",
                      "Failed to analyze triggers: {str(e)}")
    ELSE BypassOutput(triggers,
                      AnalyzeApexTriggersResult(triggers.items),
                      "trigger",
                      "Analyzed {len(triggers_to_analyze)} triggers. Security score: {results['security_score']}/100")

\* bool(x) of an argument of generate_report: None and the empty dict are false
IsSupplied(tool_output) == tool_output # None /\ tool_output # EmptyDict

\* the analyses dict generate_report builds from its three arguments
AnalysesOf(naming_results, validation_results, trigger_results) ==
    (IF IsSupplied(naming_results)
     THEN [naming_conventions |-> Get(naming_results, "results", None),
           naming_conventions_summary |-> Get(naming_results, "summary", None)]
     ELSE EmptyDict)
    @@ (IF IsSupplied(validation_results)
        THEN [validation_rules |-> Get(validation_results, "results", None),
              validation_rules_refactoring_priorities |->
                  Get(validation_results, "refactoring_priorities", None),
              validation_rules_recommendations |->
                  Get(validation_results, "recommendations", None)]
        ELSE EmptyDict)
    @@ (IF IsSupplied(trigger_results)
        THEN [triggers |-> Get(trigger_results, "results", None),
              triggers_refactoring_priorities |->
                  Get(trigger_results, "refactoring_priorities", None),
              triggers_recommendations |-> Get(trigger_results, "recommendations", None)]
        ELSE EmptyDict)

\* generate_executive_summary calls .get on the value of every domain key that is
\* in analyses: AttributeError when the value is None
RaisesAttributeError(analyses) ==
    \E k \in 1..Len(Domains) :
        Domains[k].key \in DOMAIN analyses /\ analyses[Domains[k].key] = None

\* generate_report taking an output without results for a missing argument
generate_report_SkipsFailed(naming_results, validation_results, trigger_results) ==
    LET Usable(tool_output) ==
            IF IsSupplied(tool_output) /\ "results" \in DOMAIN tool_output
            THEN tool_output
            ELSE None
        analyses == AnalysesOf(Usable(naming_results), Usable(validation_results),
                               Usable(trigger_results))
    IN  [success |-> TRUE,
         report |-> generate_comprehensive_report(analyses),
         message |-> "Successfully generated comprehensive report"]

\* the tool generate_report
generate_report(naming_results, validation_results, trigger_results) ==
    LET analyses == AnalysesOf(naming_results, validation_results, trigger_results)
    IN  IF RaisesAttributeError(analyses)
        THEN FailedOutput("'NoneType' object has no attribute 'get'",
                          "Failed to generate report: {str(e)}")
        ELSE [success |-> TRUE,
              report |-> generate_comprehensive_report(analyses),
              message |-> "Successfully generated comprehensive report"]

\* the values an analysis tool is called with: lists of at most MaxToolRecords
\* records, the empty list among them, and None
ToolArgs(records) ==
    {[kind |-> "list", items |-> s] : s \in SeqsUpTo(records, MaxToolRecords)}
    \cup {None}

\* the values of one argument of generate_report: None, the empty dict, and the
\* outputs of the analysis tool of its domain, failed ones among them
NamingResults ==
    {None, EmptyDict}
    \cup {analyze_naming_conventions(a) : a \in ToolArgs(IdemFieldRecords)}

ValidationResults ==
    {None, EmptyDict}
    \cup {analyze_validation_rules(a) : a \in ToolArgs(IdemRuleRecords)}

TriggerResults ==
    {None, EmptyDict}
    \cup {analyze_apex_triggers(a) : a \in ToolArgs(IdemTriggerRecords)}

\* a call of the tool generate_report; whatever raises inside is caught
GenerateReport ==
    /\ pc = "idle"
    /\ \E outputs \in NamingResults \X ValidationResults \X TriggerResults :
          /\ arg' = [naming_results |-> outputs[1],
                     validation_results |-> outputs[2],
                     trigger_results |-> outputs[3]]
          /\ results' = generate_report(outputs[1], outputs[2], outputs[3])
    /\ op' = "generate_report"
    /\ pc' = "reported"
    /\ UNCHANGED <<catalogs, idx, priorities, score, prev>>

\* the client takes the output of the tool
ReturnOutput ==
    /\ pc = "reported"
    /\ Forget
    /\ UNCHANGED <<catalogs, prev>>

NextServer ==
    \/ GenerateReport
    \/ ReturnOutput

SpecServer == Init /\ [][NextServer]_vars
----------------------------------------------------------------------------
(* Properties *)

Severities == {"High", "Medium", "Low"}

BypassOps == {"analyze_validation_rules", "analyze_apex_triggers"}

Analyzers == {"analyze_fields"} \cup BypassOps

\* the identifier of a flagged item of the operation in progress
ItemId(item) == IF op = "analyze_apex_triggers" THEN item.name ELSE item.apiName

\* the positions of the argument's records whose apiName is the given name
FieldsNamed(name) ==
    {i \in 1..Len(arg.items) :
        "apiName" \in DOMAIN arg.items[i] /\ arg.items[i].apiName = name}

\* p is n/d rounded to the nearest integer (a half goes to the even neighbour)
IsRounded(p, n, d) ==
    LET gap == IF n >= p * d THEN n - p * d ELSE p * d - n
    IN  2 * gap <= d /\ (2 * gap = d => p % 2 = 0)

\* C1: a completed analyze_fields has classified every field exactly once:
\* compliant_field_count + len(violations) = total_field_count = len(fields),
\* and compliance_percentage = round(100 * compliant_field_count / total_field_count)
C1_EveryFieldClassifiedOnce ==
    (op = "analyze_fields" /\ pc = "done") =>
        /\ results.total_field_count = Len(arg.items)
        /\ results.compliant_field_count + Len(results.violations)
              = results.total_field_count
        /\ IsRounded(results.compliance_percentage,
                     100 * results.compliant_field_count, results.total_field_count)

C1_Witness ==
    /\ op = "analyze_fields" /\ pc = "done"
    /\ results.total_field_count = MaxRecords
    /\ Len(results.violations) >= 2

\* C2: security_score is an integer in 0..100, in every result of the two bypass
\* analyzers and for every results structure given to calculate_security_score
C2_SecurityScoreInRange ==
    /\ (op \in BypassOps /\ pc \in {"done", "prioritized"}) =>
          results.security_score \in 0..100
    /\ pc = "scored" => score \in 0..100

\* every record flagged High, so many that the deductions exceed 100
C2_Witness ==
    /\ pc = "scored"
    /\ score = 0
    /\ LET keys == ResultKeys(arg.component_type)
       IN  /\ arg.results[keys.total] > 0
           /\ arg.results[keys.with_bypass] = arg.results[keys.total]
           /\ 5 * Len(arg.results[keys.by_severity]["High"]) + 30 > 100

\* C3: an analyzer given an empty list, None or a value that is not a list raises
\* and returns no results
C3_InvalidInputRaises ==
    (op \in Analyzers /\ (arg.kind # "list" \/ arg.items = <<>>)) =>
        (pc = "raised" /\ results = Nothing)

C3_Witness ==
    /\ pc = "raised"
    /\ op = "analyze_apex_triggers"
    /\ arg.kind = "tuple"
    /\ Len(arg.items) = 1

\* C4: the refactoring priorities are sorted: High before Medium before Low, and
\* within one severity by ascending identifier
C4_PrioritiesSorted ==
    pc = "prioritized" =>
        \A i, j \in 1..Len(priorities) :
            i < j =>
                LET a == priorities[i]
                    b == priorities[j]
                IN  /\ a.highest_severity = "Medium" => b.highest_severity # "High"
                    /\ a.highest_severity = "Low" => b.highest_severity = "Low"
                    /\ a.highest_severity = b.highest_severity =>
                          ~StrLess(ItemId(b), ItemId(a))

\* three flagged items, reordered by the sort, two of one severity with
\* different identifiers and one of another severity
C4_Witness ==
    /\ pc = "prioritized"
    /\ Len(priorities) = 3
    /\ priorities # results.bypass_patterns
    /\ \E i \in 1..2 :
          /\ priorities[i].highest_severity = priorities[i + 1].highest_severity
          /\ ItemId(priorities[i]) # ItemId(priorities[i + 1])
    /\ priorities[1].highest_severity # priorities[3].highest_severity

\* C5: a call with the operation and argument of an earlier completed call has the
\* same outcome and the same results, whatever calls were made in between; the
\* catalogs are as the constructors built them
C5_Idempotent ==
    /\ convention_rules = ConventionRules
    /\ loan_object_conventions = LoanObjectConventions
    /\ validation_rule_patterns = ValidationRulePatterns
    /\ apex_trigger_patterns = ApexTriggerPatterns
    /\ (pc \in {"done", "raised"} /\ prev # Nothing /\ prev.op = op /\ prev.arg = arg) =>
          (prev.outcome = pc /\ prev.results = results)

C5_Witness ==
    /\ pc = "done"
    /\ prev # Nothing
    /\ prev.op = op
    /\ prev.arg = arg
    /\ Len(arg.items) = MaxRecords
    /\ prev.results = results

\* C6: the field nc_Loan_Score__c has no violation: it is in no entry of violations
\* or of a severity bucket, and it is counted compliant
C6_CustomLoanFieldCompliant ==
    (op = "analyze_fields" /\ pc = "done" /\ FieldsNamed("nc_Loan_Score__c") # {}) =>
        /\ \A k \in 1..Len(results.violations) :
              results.violations[k].apiName # "nc_Loan_Score__c"
        /\ \A s \in {"critical", "medium", "low"} :
              \A k \in 1..Len(results.by_severity[s]) :
                  results.by_severity[s][k].apiName # "nc_Loan_Score__c"
        /\ results.compliant_field_count >= Cardinality(FieldsNamed("nc_Loan_Score__c"))

\* C7: the field customField__c has one violation, is in the medium bucket and is
\* not counted compliant
C7_CustomFieldMedium ==
    (op = "analyze_fields" /\ pc = "done" /\ FieldsNamed("customField__c") # {}) =>
        /\ \E k \in 1..Len(results.by_severity["medium"]) :
              results.by_severity["medium"][k].apiName = "customField__c"
        /\ \A k \in 1..Len(results.violations) :
              results.violations[k].apiName = "customField__c" =>
                  Len(results.violations[k].violations) = 1
        /\ results.compliant_field_count
              <= results.total_field_count - Cardinality(FieldsNamed("customField__c"))

\* the record the loop is processing in a step from idx to idx + 1
StepsOver(operation) == op = operation /\ pc = "loop" /\ idx' = idx + 1

\* the step appended one flagged item, with exactly one finding of the given
\* name and severity, which is also its highest severity
FlaggedWithOnly(name, severity) ==
    /\ Len(results'.bypass_patterns) = Len(results.bypass_patterns) + 1
    /\ LET item == results'.bypass_patterns[Len(results'.bypass_patterns)]
       IN  /\ Len(item.patterns) = 1
           /\ item.patterns[1].name = name
           /\ item.patterns[1].severity = severity
           /\ item.highest_severity = severity

\* C8: a validation rule whose formula is $Profile.Name != 'System Administrator'
\* is flagged with exactly one finding, Profile-based bypass, severity Medium, and
\* highest_severity Medium
C8_ProfileInequalityFlagged ==
    [][(/\ StepsOver("analyze_validation_rules")
        /\ GetEither(arg.items[idx'], "errorConditionFormula", "formula")
              = "$Profile.Name != 'System Administrator'")
       => FlaggedWithOnly("Profile-based bypass", "Medium")]_vars

\* the trigger source holds the FeatureManagement call of the scenario and no
\* other construct of the catalog
OnlyFeatureManagementCall(trigger) ==
    LET text == Chars[GetEither(trigger, "content", "code")]
    IN  /\ Contains(text, Chars["FeatureManagement.checkPermission('Bypass_Loan_Trigger')"])
        /\ \A k \in 2..Len(ApexTriggerPatterns) :
              ~Search(ApexTriggerPatterns[k].regex, text)

\* C9: a trigger whose content holds FeatureManagement.checkPermission(
\* 'Bypass_Loan_Trigger') and no other catalog construct is flagged with exactly one
\* finding, Feature management permission check, severity Low, highest_severity Low
C9_FeatureManagementLow ==
    [][(/\ StepsOver("analyze_apex_triggers")
        /\ OnlyFeatureManagementCall(arg.items[idx']))
       => FlaggedWithOnly("Feature management permission check", "Low")]_vars

\* the scenario's trigger was just processed, after another flagged trigger
C9_Witness ==
    /\ op = "analyze_apex_triggers" /\ pc = "loop"
    /\ idx >= 2
    /\ OnlyFeatureManagementCall(arg.items[idx])
    /\ Len(results.bypass_patterns) >= 2
    /\ results.bypass_patterns[Len(results.bypass_patterns)].highest_severity = "Low"

\* C10: in every bypass result each flagged item's highest_severity is the greatest
\* severity among its findings (High > Medium > Low), and each severity bucket holds
\* the identifiers of exactly the items with that highest_severity
C10_HighestSeverityAndBucket ==
    (op \in BypassOps /\ pc \in {"loop", "done", "prioritized"}) =>
        LET flagged == results.bypass_patterns
            buckets == results[ResultKeys(ComponentType(op)).by_severity]
            Level(s) == CASE s = "High" -> 3 [] s = "Medium" -> 2 [] s = "Low" -> 1
            Among(s) == SelectSeq(flagged, LAMBDA item : item.highest_severity = s)
        IN  /\ \A i \in 1..Len(flagged) :
                  /\ \E k \in 1..Len(flagged[i].patterns) :
                        flagged[i].patterns[k].severity = flagged[i].highest_severity
                  /\ \A k \in 1..Len(flagged[i].patterns) :
                        Level(flagged[i].patterns[k].severity)
                            <= Level(flagged[i].highest_severity)
            /\ \A s \in Severities :
                  buckets[s] = [k \in 1..Len(Among(s)) |-> ItemId(Among(s)[k])]

\* a result with an item whose findings differ in severity, for each severity
\* that can be the highest of several
C10_Witness ==
    /\ op \in BypassOps /\ pc = "done"
    /\ \E i \in 1..Len(results.bypass_patterns) :
          LET item == results.bypass_patterns[i]
          IN  /\ item.highest_severity = "High"
              /\ \E k \in 1..Len(item.patterns) : item.patterns[k].severity # "High"
    /\ \E i \in 1..Len(results.bypass_patterns) :
          LET item == results.bypass_patterns[i]
          IN  /\ item.highest_severity = "Medium"
              /\ \E k \in 1..Len(item.patterns) : item.patterns[k].severity = "Low"


\* the number of flagged items of a bypass result whose highest severity is s
CountWithSeverity(flagged, s) ==
    Len(SelectSeq(flagged, LAMBDA item : item.highest_severity = s))

\* x is the fraction n/d (d > 0) rounded to the nearest integer and then clamped
\* to 0..100
IsRoundedAndClamped(x, n, d) ==
    \E p \in (-1)..101 :
        /\ \/ IsRounded(p, n, d)
           \/ p = -1 /\ 2 * n < -d
           \/ p = 101 /\ 2 * n > 201 * d
        /\ x = IF p < 0 THEN 0 ELSE IF p > 100 THEN 100 ELSE p

\* C11: for validation rules and for triggers, security_score is
\* 100 - 0.3 * (100 * flagged / total) - 5 * (records whose highest severity is High)
\* - 2 * (records whose highest severity is Medium), rounded to the nearest integer
\* and clamped to 0..100; records of Low severity count only in the flagged share,
\* and in an analyzer's result the share costs at most 30 points
C11_SecurityScoreFormula ==
    /\ (op \in BypassOps /\ pc \in {"done", "prioritized"}) =>
          LET flagged == results.bypass_patterns
              total == Len(arg.items)
              high == CountWithSeverity(flagged, "High")
              medium == CountWithSeverity(flagged, "Medium")
          IN  /\ 30 * Len(flagged) <= 30 * total
              /\ IsRoundedAndClamped(results.security_score,
                                     (100 - 5 * high - 2 * medium) * total
                                         - 30 * Len(flagged),
                                     total)
    /\ (pc = "scored" /\ arg.results[ResultKeys(arg.component_type).total] > 0) =>
          LET keys == ResultKeys(arg.component_type)
              total == arg.results[keys.total]
              high == Len(arg.results[keys.by_severity]["High"])
              medium == Len(arg.results[keys.by_severity]["Medium"])
          IN  IsRoundedAndClamped(score,
                                  (100 - 5 * high - 2 * medium) * total
                                      - 30 * arg.results[keys.with_bypass],
                                  total)

\* an analyzer's result with records of all three severities, every record flagged
C11_Witness ==
    /\ op \in BypassOps /\ pc = "done"
    /\ Len(results.bypass_patterns) = Len(arg.items)
    /\ \A s \in Severities : CountWithSeverity(results.bypass_patterns, s) = 1
    /\ results.security_score = 63

\* the domains supplied in the analyses dict a report was built from
PresentDomains ==
    {d \in {"naming_conventions", "validation_rules", "triggers"} : d \in DOMAIN arg}

\* the score an analysis result carries: compliance_percentage for naming,
\* security_score for validation rules and triggers, 0 when it carries none
DomainScore(d) ==
    LET key == IF d = "naming_conventions" THEN "compliance_percentage"
               ELSE "security_score"
    IN  IF key \in DOMAIN arg[d] THEN arg[d][key] ELSE 0

\* the score of a domain times twice its weight, and twice its weight; 0 for a
\* domain that is not present
DoubleWeight(d) ==
    IF d \notin PresentDomains THEN 0
    ELSE IF d = "naming_conventions" THEN 2 ELSE 3

DoubleWeighted(d) == IF d \notin PresentDomains THEN 0 ELSE DomainScore(d) * DoubleWeight(d)

\* C12: the overall score is the average of the scores of the domains present,
\* weighted 1 for naming and 1.5 each for validation rules and triggers, rounded to
\* the nearest integer; with exactly one domain present it is that domain's score
\* (only a validation result with security_score 40: score 40, rating Poor); with no
\* domain present the score is 0 and the rating "N/A"
C12_OverallScoreWeightedAverage ==
    pc = "reported" =>
        LET overall == results.overall_score
        IN  /\ PresentDomains # {} =>
                  IsRounded(overall.score,
                            DoubleWeighted("naming_conventions")
                                + DoubleWeighted("validation_rules")
                                + DoubleWeighted("triggers"),
                            DoubleWeight("naming_conventions")
                                + DoubleWeight("validation_rules")
                                + DoubleWeight("triggers"))
            /\ \A d \in PresentDomains :
                  PresentDomains = {d} => overall.score = DomainScore(d)
            /\ (PresentDomains = {"validation_rules"}
                    /\ DomainScore("validation_rules") = 40) =>
                  (overall.score = 40 /\ overall.rating = "Poor")
            /\ PresentDomains = {} => (overall.score = 0 /\ overall.rating = "N/A")

\* three domains whose weighted average 43.5 differs from their plain average 43
\* and is rounded
C12_Witness ==
    /\ pc = "reported"
    /\ PresentDomains = {"naming_conventions", "validation_rules", "triggers"}
    /\ DomainScore("naming_conventions") = 39
    /\ DomainScore("validation_rules") = 90
    /\ DomainScore("triggers") = 0
    /\ results.overall_score.score = 44

\* C13: when a domain is present the rating is given by the rounded overall score:
\* Excellent iff score >= 90, Good iff 75 <= score < 90, Fair iff 60 <= score < 75,
\* Poor iff 40 <= score < 60, Critical iff score < 40; the rating is "N/A" exactly
\* when no domain is present
C13_RatingBands ==
    pc = "reported" =>
        LET overall == results.overall_score
        IN  /\ PresentDomains # {} =>
                  /\ overall.rating = "Excellent" <=> overall.score >= 90
                  /\ overall.rating = "Good" <=> (75 <= overall.score /\ overall.score < 90)
                  /\ overall.rating = "Fair" <=> (60 <= overall.score /\ overall.score < 75)
                  /\ overall.rating = "Poor" <=> (40 <= overall.score /\ overall.score < 60)
                  /\ overall.rating = "Critical" <=> overall.score < 40
            /\ overall.rating = "N/A" <=> PresentDomains = {}

\* a score on the lower end of a band, averaged over two domains
C13_Witness ==
    /\ pc = "reported"
    /\ Cardinality(PresentDomains) = 2
    /\ results.overall_score.score = 75
    /\ results.overall_score.rating = "Good"
    /\ \E d \in PresentDomains : DomainScore(d) # 75

\* the result a call returns when no other call is running: every iteration
\* applied in turn with the catalogs the constructors built
ResultAlone(operation, a) ==
    CASE operation = "analyze_fields" -> AnalyzeFieldsResult(a.items)
      [] operation = "analyze_validation_rules" -> AnalyzeValidationRulesResult(a.items)
      [] operation = "analyze_apex_triggers" -> AnalyzeApexTriggersResult(a.items)

\* C14: callers running analyzer operations in parallel on the shared instances
\* obtain, under every interleaving of their loop iterations, the outcome they would
\* obtain alone; no step changes a catalog of the instances
C14_ParallelCallersIsolated ==
    /\ convention_rules = ConventionRules
    /\ loan_object_conventions = LoanObjectConventions
    /\ validation_rule_patterns = ValidationRulePatterns
    /\ apex_trigger_patterns = ApexTriggerPatterns
    /\ \A c \in Callers :
          /\ pc[c] = "done" =>
                (~InvalidInput(arg[c]) /\ results[c] = ResultAlone(op[c], arg[c]))
          /\ pc[c] = "raised" => (InvalidInput(arg[c]) /\ results[c] = Nothing)

\* two calls of one operation with different arguments have completed, and each
\* ran iterations while the loop of the other was under way
C14_Witness ==
    /\ \A c \in Callers :
          /\ pc[c] = "done"
          /\ prev[c]
          /\ op[c] = "analyze_validation_rules"
          /\ Len(arg[c].items) = MaxParallelRecords
    /\ arg["caller1"] # arg["caller2"]
    /\ results["caller1"] # results["caller2"]

\* the string a record holds under a key, the empty string when it lacks the key
StringOf(record, key) == IF key \in DOMAIN record THEN record[key] ELSE ""

\* the string under the first key, or else under its alias
StringOfEither(record, key, alias) ==
    IF StringOf(record, key) # "" THEN record[key] ELSE StringOf(record, alias)

\* the boolean a record holds under a key, false when it lacks the key
BooleanOf(record, key) == IF key \in DOMAIN record THEN record[key] ELSE FALSE

\* the number of records the results of an operation count in total
TotalOf(operation, res) ==
    CASE operation = "analyze_fields" -> res.total_field_count
      [] operation = "analyze_validation_rules" -> res.total_rules
      [] operation = "analyze_apex_triggers" -> res.total_triggers

\* the step appended one entry to the list
Appended(old, new) == Len(new) = Len(old) + 1

\* C15: an analyzer given a non-empty list never raises, whatever keys its records
\* lack, and counts every record in the total; a flagged record's entry holds ""
\* for a string the record lacks and false for a boolean it lacks; a record without
\* formula or content is analyzed as the empty text
C15_MissingFieldsDefault ==
    [][/\ (op' \in Analyzers /\ arg'.kind = "list" /\ arg'.items # <<>>) =>
              (pc' # "raised" /\ TotalOf(op', results') = Len(arg'.items))
       /\ StepsOver("analyze_fields") =>
              LET field == arg.items[idx']
                  entry == results'.violations[Len(results'.violations)]
              IN  Appended(results.violations, results'.violations) =>
                      /\ entry.apiName = StringOfEither(field, "apiName", "fullName")
                      /\ entry.label = StringOf(field, "label")
                      /\ entry.type = StringOf(field, "type")
       /\ StepsOver("analyze_validation_rules") =>
              LET rule == arg.items[idx']
                  entry == results'.bypass_patterns[Len(results'.bypass_patterns)]
              IN  /\ Appended(results.bypass_patterns, results'.bypass_patterns) =>
                        /\ entry.apiName = StringOfEither(rule, "apiName", "fullName")
                        /\ entry.active = BooleanOf(rule, "active")
                        /\ entry.description = StringOf(rule, "description")
                  /\ StringOfEither(rule, "errorConditionFormula", "formula") = "" =>
                        results'.bypass_patterns = results.bypass_patterns
       /\ StepsOver("analyze_apex_triggers") =>
              LET trigger == arg.items[idx']
                  entry == results'.bypass_patterns[Len(results'.bypass_patterns)]
              IN  /\ Appended(results.bypass_patterns, results'.bypass_patterns) =>
                        /\ entry.name = StringOf(trigger, "name")
                        /\ entry.active = BooleanOf(trigger, "active")
                  /\ StringOfEither(trigger, "content", "code") = "" =>
                        results'.bypass_patterns = results.bypass_patterns
      ]_vars

\* a completed analysis of a record without any key, a flagged rule that has only
\* its formula, and a complete record
C15_Witness ==
    /\ op = "analyze_validation_rules" /\ pc = "done"
    /\ Len(arg.items) = 3
    /\ arg.items[1] = EmptyDict
    /\ DOMAIN arg.items[2] = {"formula"}
    /\ "description" \in DOMAIN arg.items[3]
    /\ results.total_rules = 3
    /\ Len(results.bypass_patterns) = 2
    /\ results.bypass_patterns[1].apiName = ""
    /\ results.bypass_patterns[1].active = FALSE
    /\ results.bypass_patterns[1].description = ""

\* the size of a severity bucket of a domain in the analyses a report was built
\* from: 0 when the domain, its buckets or the bucket are not supplied
SuppliedBucket(d, by_severity, bucket) ==
    IF d \in DOMAIN arg /\ by_severity \in DOMAIN arg[d]
          /\ bucket \in DOMAIN arg[d][by_severity]
    THEN Len(arg[d][by_severity][bucket])
    ELSE 0

\* the issues of a level supplied over the three domains
SuppliedIssues(naming_bucket, bypass_bucket) ==
    SuppliedBucket("naming_conventions", "by_severity", naming_bucket)
        + SuppliedBucket("validation_rules", "rules_by_severity", bypass_bucket)
        + SuppliedBucket("triggers", "triggers_by_severity", bypass_bucket)

\* C16: the risk counts of the executive summary are the sums of the bucket sizes
\* over the present domains (naming critical/medium/low, bypass High/Medium/Low);
\* the assessment is critical attention when the critical count exceeds 5 or the
\* critical share of all issues exceeds 20%, else moderate risk when the critical
\* count exceeds 0 or the medium count exceeds 10, else low risk
C16_ExecutiveSummary ==
    pc = "reported" =>
        LET summary == results.executive_summary
            critical == SuppliedIssues("critical", "High")
            medium == SuppliedIssues("medium", "Medium")
            low == SuppliedIssues("low", "Low")
            all == critical + medium + low
        IN  /\ summary.risks_identified.critical = critical
            /\ summary.risks_identified.medium = medium
            /\ summary.risks_identified.low = low
            /\ summary.overall_assessment =
                  IF critical > 5 \/ 100 * critical > 20 * all THEN CriticalAttention
                  ELSE IF critical > 0 \/ medium > 10 THEN ModerateRisk
                  ELSE LowRisk

\* issues of two domains are summed, and the critical share is exactly 20%
C16_Witness ==
    /\ pc = "reported"
    /\ SuppliedBucket("validation_rules", "rules_by_severity", "High") = 1
    /\ SuppliedBucket("naming_conventions", "by_severity", "low") > 0
    /\ results.executive_summary.risks_identified.critical = 1
    /\ results.executive_summary.risks_identified.low > 0
    /\ 5 * SuppliedIssues("critical", "High")
          = SuppliedIssues("critical", "High") + SuppliedIssues("medium", "Medium")
                + SuppliedIssues("low", "Low")
    /\ results.executive_summary.overall_assessment = ModerateRisk

\* the recommendation lists supplied in the analyses a report was built from, in
\* the order naming, validation rules, triggers, followed by the three standing
\* recommendations
SuppliedRecommendations ==
    (IF "naming_conventions_summary" \in DOMAIN arg
           /\ "recommendations" \in DOMAIN arg["naming_conventions_summary"]
     THEN arg["naming_conventions_summary"]["recommendations"] ELSE <<>>)
    \o (IF "validation_rules_recommendations" \in DOMAIN arg
        THEN arg["validation_rules_recommendations"] ELSE <<>>)
    \o (IF "triggers_recommendations" \in DOMAIN arg
        THEN arg["triggers_recommendations"] ELSE <<>>)
    \o <<"Implement a governance process to regularly review and audit configuration changes.",
         "Document all configuration standards and patterns in a central location.",
         "Provide training to developers on secure and maintainable configuration practices.">>

\* the position of the first occurrence of x in the list
FirstOccurrence(list, x) ==
    CHOOSE i \in 1..Len(list) : list[i] = x /\ \A j \in 1..(i - 1) : list[j] # x

\* C17: the recommendations of the report are the supplied naming, validation and
\* trigger lists, in that order, followed by the three standing recommendations,
\* with duplicates removed: no string occurs twice, every supplied and every standing
\* recommendation occurs, and the strings are in the order of their first occurrences
C17_RecommendationsDeduplicated ==
    pc = "reported" =>
        LET supplied == SuppliedRecommendations
            final == results.recommendations
        IN  /\ \A i, j \in 1..Len(final) : i < j => final[i] # final[j]
            /\ {final[i] : i \in 1..Len(final)} = {supplied[i] : i \in 1..Len(supplied)}
            /\ \A i, j \in 1..Len(final) :
                  i < j => FirstOccurrence(supplied, final[i])
                               < FirstOccurrence(supplied, final[j])

\* three supplied lists with a string repeated in one list, a string in two lists,
\* and a standing recommendation supplied by a domain
C17_Witness ==
    /\ pc = "reported"
    /\ {"naming_conventions_summary", "validation_rules_recommendations",
        "triggers_recommendations"} \subseteq DOMAIN arg
    /\ Len(SuppliedRecommendations) = 9
    /\ Len(results.recommendations) = 5
    /\ arg["validation_rules_recommendations"][1] = arg["validation_rules_recommendations"][2]
    /\ arg["triggers_recommendations"][1] = arg["validation_rules_recommendations"][1]
    /\ results.recommendations[1]
          = "Document all configuration standards and patterns in a central location."

\* the name analyze_fields reads from the field processed by the step
SteppedName == StringOfEither(arg.items[idx'], "apiName", "fullName")

\* the violations the step recorded for the field: those of the entry it appended,
\* none when it appended no entry
SteppedViolations ==
    IF Appended(results.violations, results'.violations)
    THEN results'.violations[Len(results'.violations)].violations
    ELSE <<>>

\* the step recorded a critical violation with the rule text
EmitsCritical(rule) ==
    \E k \in 1..Len(SteppedViolations) :
        /\ SteppedViolations[k].rule = rule
        /\ "severity" \in DOMAIN SteppedViolations[k]
        /\ SteppedViolations[k].severity = "critical"

\* C18: a field whose name contains "Loan" or "loan" and matches neither the
\* standard patterns (LLC_BI__...__c) nor the custom patterns (nc_...__c) gets the
\* critical violation "must follow standard or custom patterns"; independently, one
\* whose name starts with Loan_ or loan_ or ends in __X gets the critical violation
\* "invalid naming pattern"
C18_LoanStructuralChecks ==
    [][(/\ StepsOver("analyze_fields")
        /\ \/ Contains(Chars[SteppedName], Chars["Loan"])
           \/ Contains(Chars[SteppedName], Chars["loan"]))
       => /\ (/\ ~AnySearch(LoanObjectConventions.standard_patterns, SteppedName)
              /\ ~AnySearch(LoanObjectConventions.custom_patterns, SteppedName))
                 => EmitsCritical("Loan-related fields must follow standard or custom patterns")
          /\ (\/ StartsWith(Chars[SteppedName], Chars["Loan_"])
              \/ StartsWith(Chars[SteppedName], Chars["loan_"])
              \/ EndsWith(Chars[SteppedName], Chars["__X"]))
                 => EmitsCritical("Field uses an invalid naming pattern")]_vars

\* the severity bucket the step appended the field's entry to
SteppedSeverity ==
    CHOOSE s \in {"critical", "medium", "low"} :
        Appended(results.by_severity[s], results'.by_severity[s])

\* C19: a field is critical if one of its violations has severity critical or a
\* rule text mentioning "Loan" or "standard patterns"; otherwise medium if a rule
\* text mentions "custom project-specific", so that a field that only violates
\* catalog rule 2 (the custom prefix) is medium; otherwise low
C19_SeverityDetermination ==
    [][(StepsOver("analyze_fields") /\ SteppedViolations # <<>>)
       => LET vs == SteppedViolations
              Critical(v) == "severity" \in DOMAIN v /\ v.severity = "critical"
              Mentions(v, text) == Contains(Chars[v.rule], Chars[text])
              OnlyRule2 ==
                  Len(vs) = 1 /\ "pattern" \in DOMAIN vs[1]
                      /\ vs[1].pattern = ConventionRules[2].pattern
          IN  SteppedSeverity =
                  IF \E k \in 1..Len(vs) :
                         \/ Critical(vs[k])
                         \/ Mentions(vs[k], "Loan")
                         \/ Mentions(vs[k], "standard patterns")
                  THEN "critical"
                  ELSE IF \/ \E k \in 1..Len(vs) : Mentions(vs[k], "custom project-specific")
                          \/ OnlyRule2
                  THEN "medium"
                  ELSE "low"]_vars

\* the number of violations of the catalog rule with the pattern among those the
\* step recorded
CatalogViolationsOf(pattern) ==
    Cardinality({k \in 1..Len(SteppedViolations) :
                    /\ "pattern" \in DOMAIN SteppedViolations[k]
                    /\ SteppedViolations[k].pattern = pattern})

\* C20: every field gets one violation of rule 1 iff its name does not start with
\* LLC_BI__, one of rule 2 iff it does not start with nc_, and one of rule 3 iff it
\* starts with a lowercase letter; the rules are evaluated independently, so a field
\* without either prefix has two prefix violations
C20_CatalogRulesIndependent ==
    [][StepsOver("analyze_fields")
       => LET name == Chars[SteppedName]
          IN  /\ CatalogViolationsOf("^LLC_BI__")
                    = IF StartsWith(name, Chars["LLC_BI__"]) THEN 0 ELSE 1
              /\ CatalogViolationsOf("^nc_")
                    = IF StartsWith(name, Chars["nc_"]) THEN 0 ELSE 1
              /\ CatalogViolationsOf("^[a-z]")
                    = IF name # <<>> /\ name[1] \in LowerCase THEN 1 ELSE 0
              /\ (~StartsWith(name, Chars["LLC_BI__"]) /\ ~StartsWith(name, Chars["nc_"]))
                    => CatalogViolationsOf("^LLC_BI__") + CatalogViolationsOf("^nc_") = 2]_vars

\* a field without either prefix and with a lowercase first letter was just
\* recorded with the three catalog violations, after a field with one violation
C20_Witness ==
    /\ op = "analyze_fields" /\ pc = "loop"
    /\ idx = 2
    /\ StringOf(arg.items[1], "apiName") = "LLC_BI__Amount__c"
    /\ StringOf(arg.items[2], "apiName") = "customField__c"
    /\ Len(results.violations) = 2
    /\ Len(results.violations[1].violations) = 1
    /\ Len(results.violations[2].violations) = 3
    /\ \A k \in 1..3 : "pattern" \in DOMAIN results.violations[2].violations[k]
----------------------------------------------------------------------------
(* Properties of the recommendations *)

\* x is an element of the sequence xs
IsIn(x, xs) == \E i \in 1..Len(xs) : xs[i] = x

\* C21: the general recommendations of a bypass result start with the three
\* standing messages in their order; the urgent message is present exactly when
\* a record has highest severity High; for validation rules the strategy-review
\* message is present exactly when more than 50% of the analyzed rules are
\* flagged; for triggers the trigger-handler-framework message is the last one
C21_BypassGeneralRecommendations ==
    (pc = "advised" /\ op = "BypassPatternAnalyzer.generate_general_recommendations") =>
        LET keys == ResultKeys(arg.component_type)
            analyzed == arg.results[keys.total]
            flagged == arg.results[keys.with_bypass]
            urgent == IF arg.component_type = "trigger"
                      THEN "Immediately refactor triggers with hardcoded User IDs or Profile checks"
                      ELSE "Immediately refactor validation rules with hardcoded User IDs"
        IN  /\ Len(results) >= 3
            /\ SubSeq(results, 1, 3) = StandingBypassRecommendations
            /\ IsIn(urgent, results)
                  <=> Len(arg.results[keys.by_severity]["High"]) > 0
            /\ arg.component_type = "validation" =>
                  (IsIn("Review overall validation strategy to reduce reliance on bypass patterns",
                        results)
                      <=> 100 * flagged > 50 * analyzed)
            /\ arg.component_type = "trigger" =>
                  results[Len(results)]
                      = "Implement a centralized trigger handler framework with consistent bypass logic"

\* C22: the general recommendations of the naming analyzer hold the urgent
\* message iff the critical bucket is non-empty, the convention-documentation and
\* the automation message iff compliance_percentage < 70, the near-term refactor
\* message iff the critical bucket is empty and the medium bucket is not, and end
\* with the regular-audit message; they appear in this order, each at most once
C22_NamingGeneralRecommendations ==
    (pc = "advised" /\ op = "NamingConventionAnalyzer.generate_general_recommendations") =>
        LET critical == Len(arg.results.by_severity.critical)
            medium == Len(arg.results.by_severity.medium)
            Returned(message) == IsIn(message, results)
        IN  /\ Returned(NamingRecommendations[1]) <=> critical > 0
            /\ Returned(NamingRecommendations[2]) <=> arg.results.compliance_percentage < 70
            /\ Returned(NamingRecommendations[3]) <=> arg.results.compliance_percentage < 70
            /\ Returned(NamingRecommendations[4]) <=> (critical = 0 /\ medium > 0)
            /\ results # <<>>
            /\ results[Len(results)] = NamingRecommendations[5]
            /\ results = SelectSeq(NamingRecommendations, Returned)

\* compliance exactly 70 with medium violations only: the refactor message and
\* the audit message, and no documentation message
C22_Witness ==
    /\ pc = "advised"
    /\ op = "NamingConventionAnalyzer.generate_general_recommendations"
    /\ arg.results.compliance_percentage = 70
    /\ arg.results.by_severity.critical = <<>>
    /\ arg.results.by_severity.medium # <<>>
    /\ results = <<NamingRecommendations[4], NamingRecommendations[5]>>

\* the catalog the bypass analyzer in progress searches with
CatalogOf(operation) ==
    IF operation = "analyze_apex_triggers"
    THEN apex_trigger_patterns
    ELSE validation_rule_patterns

\* the position of the detection rule of the given name in the catalog
CatalogPosition(catalog, name) ==
    CHOOSE k \in 1..Len(catalog) : catalog[k].name = name

\* the identifier the analyzer in progress reads from a record
IdentifierOf(operation, record) ==
    IF operation = "analyze_apex_triggers"
    THEN StringOf(record, "name")
    ELSE StringOfEither(record, "apiName", "fullName")

\* the list is as before, or as before with x appended
SameOrAppended(old, new, x) == new = old \/ new = Append(old, x)

\* C23: every iteration of a bypass analyzer leaves the flagged items, the severity
\* buckets and the pattern buckets as they were or appends to them: an item whose
\* findings are in catalog order, wherever the matches lie in the text, and the
\* identifier of the record processed; so items and identifiers are in the order
\* in which the records were processed
C23_CatalogOrderAndInsertionOrder ==
    [][(op \in BypassOps /\ pc = "loop" /\ idx' = idx + 1)
       => LET keys == ResultKeys(ComponentType(op))
              catalog == CatalogOf(op)
              ident == IdentifierOf(op, arg.items[idx'])
              old == results.bypass_patterns
              new == results'.bypass_patterns
          IN  /\ \/ new = old
                 \/ /\ Len(new) = Len(old) + 1
                    /\ SubSeq(new, 1, Len(old)) = old
                    /\ ItemId(new[Len(new)]) = ident
                    /\ LET found == new[Len(new)].patterns
                       IN  \A i, j \in 1..Len(found) :
                              i < j => CatalogPosition(catalog, found[i].name)
                                          < CatalogPosition(catalog, found[j].name)
              /\ \A s \in Severities :
                    SameOrAppended(results[keys.by_severity][s],
                                   results'[keys.by_severity][s], ident)
              /\ \A n \in DOMAIN results[keys.by_pattern] :
                    SameOrAppended(results[keys.by_pattern][n],
                                   results'[keys.by_pattern][n], ident)]_vars

\* a rule whose formula tests the user id before the permission has the
\* permission finding first, as in the catalog; the Medium bucket holds AB before
\* A, the order of the input
C23_Witness ==
    /\ op = "analyze_validation_rules" /\ pc = "done"
    /\ Len(arg.items) = 3
    /\ StringOf(arg.items[1], "errorConditionFormula")
          = "$User.Id =!= '005A' && NOT($Permission.Skip)"
    /\ Len(results.bypass_patterns) = 3
    /\ Len(results.bypass_patterns[1].patterns) = 2
    /\ results.bypass_patterns[1].patterns[1].name = "Custom permission bypass"
    /\ results.bypass_patterns[1].patterns[2].name = "User ID bypass"
    /\ results.rules_by_severity.Medium = <<"AB", "A">>

\* the formats of the strings generate_recommendation can return
CapitalizeFirst ==
    "Change first character '{first_char}' to uppercase: '{first_char.upper() + api_name[1:]}'"

AddNcPrefix == "Add 'nc_' prefix: 'nc_{api_name}'"

AddEitherPrefix ==
    "Add appropriate prefix ('LLC_BI__' for managed package fields or 'nc_' for custom fields)"

RewriteSuffix == "Remove '__X' suffix: '{api_name.replace('__X', '__c')}'"

RewriteLoan == "Change to 'nc_Loan_{api_name[5:]}'"

GenericRename ==
    "Rename to follow standard pattern (LLC_BI__*__c) or custom pattern (nc_*__c)"

GenericFallback == "Review field naming and apply appropriate convention"

\* the list holds a violation with one of the given rule texts
HasViolation(violations, rules) ==
    \E i \in 1..Len(violations) :
        "rule" \in DOMAIN violations[i] /\ violations[i].rule \in rules

\* C24: generate_recommendation returns one non-empty string, chosen by the first
\* case that applies: (a) a lowercase-start violation: capitalize the first
\* character; (b) a missing-prefix violation: the nc_ prefix for a name that
\* contains Loan and has neither prefix, else either prefix; (c) an
\* invalid-pattern violation: __X rewritten to __c, or loan_* to nc_Loan_*, or a
\* generic rename; otherwise the generic fallback
C24_RecommendationCases ==
    (pc = "advised" /\ op = "generate_recommendation") =>
        LET name == Chars[arg.api_name]
            lowercase == HasViolation(arg.violations, {ConventionRules[3].description})
            prefix == HasViolation(arg.violations, {ConventionRules[1].description,
                                                     ConventionRules[2].description})
            invalid == HasViolation(arg.violations,
                                    {"Field uses an invalid naming pattern"})
            unprefixed == /\ ~StartsWith(name, Chars["LLC_BI__"])
                          /\ ~StartsWith(name, Chars["nc_"])
        IN  /\ results.fmt # ""
            /\ results =
                  (CASE lowercase ->
                        [fmt |-> CapitalizeFirst,
                         args |-> << <<name[1]>>, <<ToUpper(name[1])>> \o Tail(name) >>]
                     [] ~lowercase /\ prefix ->
                        IF Contains(name, Chars["Loan"]) /\ unprefixed
                        THEN [fmt |-> AddNcPrefix, args |-> <<name>>]
                        ELSE [fmt |-> AddEitherPrefix, args |-> <<>>]
                     [] ~lowercase /\ ~prefix /\ invalid ->
                        IF EndsWith(name, Chars["__X"])
                        THEN [fmt |-> RewriteSuffix,
                              args |-> <<Replace(name, Chars["__X"], Chars["__c"])>>]
                        ELSE IF StartsWith(name, Chars["loan_"])
                        THEN [fmt |-> RewriteLoan, args |-> <<SubSeq(name, 6, Len(name))>>]
                        ELSE [fmt |-> GenericRename, args |-> <<>>]
                     [] OTHER -> [fmt |-> GenericFallback, args |-> <<>>])

\* a name with both rewrites open to it, an invalid-pattern violation listed
\* before the lowercase-start violation: the lowercase case wins
C24_Witness ==
    /\ pc = "advised" /\ op = "generate_recommendation"
    /\ arg.api_name = "loan_rate__X"
    /\ Len(arg.violations) = 2
    /\ HasViolation(<<arg.violations[1]>>, {"Field uses an invalid naming pattern"})
    /\ HasViolation(<<arg.violations[2]>>, {ConventionRules[3].description})
    /\ results.fmt = CapitalizeFirst

\* the flagged item has a violation of one of the two prefix rules of the catalog
HasPrefixViolation(item) ==
    \E k \in 1..Len(item.violations) :
        /\ "pattern" \in DOMAIN item.violations[k]
        /\ item.violations[k].pattern \in {"^LLC_BI__", "^nc_"}

\* C25: every field analyze_fields has processed is flagged with at least one
\* violation of a prefix rule, no field is counted compliant, and the result of a
\* non-empty list has len(violations) = total_field_count and
\* compliance_percentage = 0
C25_NoFieldCompliant ==
    (op = "analyze_fields" /\ pc \in {"loop", "done"}) =>
        /\ results.compliant_field_count = 0
        /\ Len(results.violations) = idx
        /\ \A i \in 1..Len(results.violations) : HasPrefixViolation(results.violations[i])
        /\ pc = "done" =>
              /\ results.total_field_count > 0
              /\ Len(results.violations) = results.total_field_count
              /\ results.compliance_percentage = 0

\* a managed-package field, a custom field and a record without a name, all
\* flagged
C25_Witness ==
    /\ op = "analyze_fields" /\ pc = "done"
    /\ Len(arg.items) = 3
    /\ StringOf(arg.items[1], "apiName") = "LLC_BI__Loan__c"
    /\ StringOf(arg.items[2], "apiName") = "nc_Rate__c"
    /\ arg.items[3] = EmptyDict
    /\ Len(results.violations) = 3
    /\ results.compliance_percentage = 0

\* the flagged item has a violation of the Loan object checks
HasLoanViolation(item) ==
    HasViolation(item.violations,
                 {"Loan-related fields must follow standard or custom patterns",
                  "Field uses an invalid naming pattern"})

\* the flagged item has no violation of the Loan object checks
HasNoLoanViolation(item) == ~HasLoanViolation(item)

\* C26: in every result of analyze_fields the medium bucket is empty, the critical
\* bucket holds the flagged fields with a violation of the Loan checks and the low
\* bucket all others; the summary made of it counts no medium violation and does
\* not recommend the near-term refactoring
C26_MediumBucketEmpty ==
    (pc = "advised" /\ op = "generate_summary_report") =>
        /\ arg.results.by_severity.medium = <<>>
        /\ arg.results.by_severity.critical
              = SelectSeq(arg.results.violations, HasLoanViolation)
        /\ arg.results.by_severity.low
              = SelectSeq(arg.results.violations, HasNoLoanViolation)
        /\ results.medium_violations = 0
        /\ ~IsIn(NamingRecommendations[4], results.recommendations)

\* a field whose only violation is the custom-prefix rule, classified low, and no
\* critical field: the summary still lacks the refactoring recommendation
C26_Witness ==
    /\ pc = "advised" /\ op = "generate_summary_report"
    /\ Len(arg.fields) = 1
    /\ StringOf(arg.fields[1], "apiName") = "LLC_BI__Amount__c"
    /\ Len(arg.results.by_severity.low) = 1
    /\ Len(arg.results.by_severity.low[1].violations) = 1
    /\ arg.results.by_severity.low[1].violations[1].rule = ConventionRules[2].description
    /\ arg.results.by_severity.critical = <<>>
    /\ results.recommendations
          = <<NamingRecommendations[2], NamingRecommendations[3], NamingRecommendations[5]>>

\* the text the bypass analyzer in progress searches in a record
TextOf(operation, record) ==
    IF operation = "analyze_apex_triggers"
    THEN StringOfEither(record, "content", "code")
    ELSE StringOfEither(record, "errorConditionFormula", "formula")

\* the positions of the records processed so far in which the catalog finds a
\* pattern
FlaggedRecords ==
    {i \in 1..idx :
        \E k \in 1..Len(CatalogOf(op)) :
            Search(CatalogOf(op)[k].regex, Chars[TextOf(op, arg.items[i])])}

\* C27: after every iteration of a bypass analyzer and in its result, the
\* flagged counter, the number of flagged items and the total size of the three
\* severity buckets are equal, equal to the number of processed records with a
\* finding, and at most the total
C27_FlaggedCounterConsistent ==
    (op \in BypassOps /\ pc \in {"loop", "done", "prioritized"}) =>
        LET keys == ResultKeys(ComponentType(op))
            buckets == results[keys.by_severity]
        IN  /\ results[keys.with_bypass] = Len(results.bypass_patterns)
            /\ results[keys.with_bypass]
                  = Len(buckets["High"]) + Len(buckets["Medium"]) + Len(buckets["Low"])
            /\ results[keys.with_bypass] = Cardinality(FlaggedRecords)
            /\ results[keys.with_bypass] <= results[keys.total]
            /\ results[keys.total] = Len(arg.items)

\* two of three triggers flagged, one of them with findings of two severities
C27_Witness ==
    /\ op = "analyze_apex_triggers" /\ pc = "done"
    /\ results.total_triggers = 3
    /\ results.triggers_with_bypass = 2
    /\ \E i \in 1..2 : Len(results.bypass_patterns[i].patterns) = 2
    /\ Len(results.triggers_by_severity.High) = 1

\* the number of occurrences of x in the sequence xs
Occurrences(x, xs) == Cardinality({i \in 1..Len(xs) : xs[i] = x})

\* the items of xs that have the severity and the identifier of the item x, in
\* their order in xs
WithKeyOf(x, xs) ==
    LET SameKey(y) == /\ y.highest_severity = x.highest_severity
                      /\ ItemId(y) = ItemId(x)
    IN  SelectSeq(xs, SameKey)

\* C28: generate_refactoring_priorities leaves the results as they are and returns
\* a permutation of results["bypass_patterns"]: every item as often as in the
\* input, and items of equal severity and identifier in their input order
C28_PrioritiesPermutation ==
    [][(pc = "done" /\ pc' = "prioritized")
       => /\ results' = results
          /\ Len(priorities') = Len(results.bypass_patterns)
          /\ \A i \in 1..Len(results.bypass_patterns) :
                LET x == results.bypass_patterns[i]
                IN  /\ Occurrences(x, priorities')
                          = Occurrences(x, results.bypass_patterns)
                    /\ WithKeyOf(x, priorities') = WithKeyOf(x, results.bypass_patterns)]_vars

\* three triggers, the High one last in the input and first in the priorities;
\* the two Medium triggers named A differ and keep their input order
C28_Witness ==
    /\ op = "analyze_apex_triggers" /\ pc = "prioritized"
    /\ Len(results.bypass_patterns) = 3
    /\ results.bypass_patterns[1].highest_severity = "Medium"
    /\ results.bypass_patterns[2].highest_severity = "Medium"
    /\ results.bypass_patterns[3].highest_severity = "High"
    /\ results.bypass_patterns[1].name = "A" /\ results.bypass_patterns[2].name = "A"
    /\ results.bypass_patterns[1] # results.bypass_patterns[2]
    /\ priorities = <<results.bypass_patterns[3], results.bypass_patterns[1],
                      results.bypass_patterns[2]>>

\* the arguments of generate_report that are supplied: neither None nor empty
SuppliedOutputs ==
    {x \in {arg.naming_results, arg.validation_results, arg.trigger_results} :
        x # None /\ x # EmptyDict}

\* C29: generate_report never raises; given the output of a failed analysis tool
\* (success false, no results) as one of its arguments it returns success false
\* with an error and no report, even when the other arguments are successful
\* outputs; given successful outputs only, or nothing, it returns success true
\* with a report
C29_FailedToolOutputFailsReport ==
    /\ op = "generate_report" => pc = "reported"
    /\ (op = "generate_report" /\ pc = "reported") =>
          IF \E x \in SuppliedOutputs : ~x.success
          THEN /\ ~results.success
               /\ "error" \in DOMAIN results /\ results.error # ""
               /\ "report" \notin DOMAIN results
          ELSE /\ results.success
               /\ "report" \in DOMAIN results
               /\ "error" \notin DOMAIN results

\* a failed naming analysis passed along with two successful bypass analyses
C29_Witness ==
    /\ op = "generate_report" /\ pc = "reported"
    /\ arg.naming_results # None /\ arg.naming_results # EmptyDict
    /\ ~arg.naming_results.success
    /\ "results" \notin DOMAIN arg.naming_results
    /\ arg.validation_results # None /\ arg.validation_results # EmptyDict
    /\ arg.validation_results.success
    /\ arg.trigger_results # None /\ arg.trigger_results # EmptyDict
    /\ arg.trigger_results.success
    /\ ~results.success

\* the flagged item has the invalid-pattern violation of the Loan checks
HasInvalidPatternViolation(item) ==
    HasViolation(item.violations, {"Field uses an invalid naming pattern"})

\* C30: every item flagged by analyze_fields has a violation of a prefix rule, and
\* its recommended_fix is the capitalization of the first character when it has
\* the lowercase-start violation and a prefix suggestion otherwise; the rewrites
\* of __X and of loan_, the generic rename and the generic fallback never occur
C30_FixIsCapitalizeOrPrefix ==
    (op = "analyze_fields" /\ pc \in {"loop", "done"}) =>
        \A i \in 1..Len(results.violations) :
            LET item == results.violations[i]
                fix == item.recommended_fix.fmt
            IN  /\ HasPrefixViolation(item)
                /\ fix \in {CapitalizeFirst, AddNcPrefix, AddEitherPrefix}
                /\ fix \notin {RewriteSuffix, RewriteLoan, GenericRename, GenericFallback}
                /\ fix = CapitalizeFirst
                      <=> HasViolation(item.violations, {ConventionRules[3].description})

\* two fields with the invalid-pattern violation: loan_rate__X, open to both
\* rewrites, is told to capitalize, and Loan_Amount__c to add the nc_ prefix
C30_Witness ==
    /\ op = "analyze_fields" /\ pc = "done"
    /\ Len(results.violations) = 2
    /\ results.violations[1].apiName = "loan_rate__X"
    /\ HasInvalidPatternViolation(results.violations[1])
    /\ results.violations[1].recommended_fix.fmt = CapitalizeFirst
    /\ results.violations[2].apiName = "Loan_Amount__c"
    /\ HasInvalidPatternViolation(results.violations[2])
    /\ results.violations[2].recommended_fix.fmt = AddNcPrefix
=============================================================================
